---- MODULE Spec2Model ----
(***************************************************************************)
(* Model of the browser-flow backend: the POST /tasks handler              *)
(* (app/api/tasks.py) over the context store (UserContextRepository,       *)
(* ParentTopicMapper, one AsyncSession per request), and the task          *)
(* orchestrator (TaskOrchestrator / AgentSpawner).                         *)
(***************************************************************************)
EXTENDS Integers, Sequences, FiniteSets, TLC

(***************************************************************************)
(* Bounds of the model.                                                    *)
(***************************************************************************)
\* number of POST /tasks handlers (each with its own session) that may run at once
MaxRequests == 2
\* rows of user_tasks
MaxTasks == 1
\* entries of one context-processing artefact that a request ingests
MaxEntries == 2
\* values drawn from the logical clock (timestamps and fresh uuids)
MaxClock == 2
\* the same, for the context store taken alone
MaxStoreClock == 3

Requests == 1..MaxRequests
Users == {"u1", "u2"}

\* Python None in a field that holds a uuid (context_id before the INSERT, a
\* NULL parent_topic), an embedding, a task type or a user
NoId == 0
NoEmbedding == <<>>
NoTaskType == "None"
NoUser == "None"

(***************************************************************************)
(* Embeddings and cosine similarity (EmbeddingService.cosine_similarity).  *)
(* An embedding is a vector of two non-negative integers; a similarity is  *)
(* kept as the exact fraction num/den of its square, which orders          *)
(* non-negative similarities as the floats do.                             *)
(***************************************************************************)
Dot(x, y) == x[1] * y[1] + x[2] * y[2]

cosine_similarity(embedding1, embedding2) ==
    IF Dot(embedding1, embedding1) = 0 \/ Dot(embedding2, embedding2) = 0
    THEN [num |-> 0, den |-> 1]
    ELSE [num |-> Dot(embedding1, embedding2) * Dot(embedding1, embedding2),
          den |-> Dot(embedding1, embedding1) * Dot(embedding2, embedding2)]

\* s > t for two similarities
SimGreater(s, t) == s.num * t.den > t.num * s.den

\* ParentTopicMapper.similarity_threshold = 0.7, as the fraction 7/10
ThresholdNum == 7
ThresholdDen == 10
\* s >= similarity_threshold
SimAtLeastThreshold(s) ==
    s.num * ThresholdDen * ThresholdDen >= ThresholdNum * ThresholdNum * s.den

\* best_similarity: float = 0.0
ZeroSim == [num |-> 0, den |-> 1]

(***************************************************************************)
(* ParentTopicMapper.find_parent_topic                                     *)
(***************************************************************************)
TagSet(tags) == {tags[i] : i \in 1..Len(tags)}

\* tag_matching_query without its parent_topic IS NULL condition
tag_matching_query_any_parent(rows, user_guest_id, tags) ==
    {c \in rows : /\ c.user_guest_id = user_guest_id
                  /\ TagSet(c.context_tags) \cap TagSet(tags) # {}}

\* the rows selected by tag_matching_query: same user, context_tags && tags,
\* parent_topic IS NULL.  The query reads committed rows only (autoflush is
\* off, so rows pending in the session are not flushed before the SELECT).
tag_matching_query(rows, user_guest_id, tags) ==
    {c \in rows : /\ c.user_guest_id = user_guest_id
                  /\ TagSet(c.context_tags) \cap TagSet(tags) # {}
                  /\ c.parent_topic = NoId}

\* every order in which the SELECT (which has no ORDER BY) may return a set of rows
Orderings(S) ==
    {f \in [1..Cardinality(S) -> S] : \A i, j \in 1..Cardinality(S) : i # j => f[i] # f[j]}

\* the loop over candidate_contexts: the pair <<best_match, best_similarity>>
RECURSIVE BestMatch(_, _, _)
BestMatch(candidate_contexts, embedding, k) ==
    IF k = 0 THEN <<NoId, ZeroSim>>
    ELSE LET prev == BestMatch(candidate_contexts, embedding, k - 1)
             candidate == candidate_contexts[k]
         IN  IF candidate.embedding = NoEmbedding THEN prev
             ELSE LET similarity == cosine_similarity(embedding, candidate.embedding)
                  IN  IF SimGreater(similarity, prev[2])
                      THEN <<candidate.context_id, similarity>>
                      ELSE prev

\* candidate_contexts: the query result, in the order the database returned it
find_parent_topic(candidate_contexts, tags, embedding) ==
    IF Len(tags) = 0 THEN NoId
    ELSE IF Len(candidate_contexts) = 0 THEN NoId
    ELSE LET best == BestMatch(candidate_contexts, embedding, Len(candidate_contexts))
         IN  IF embedding # NoEmbedding /\ best[1] # NoId /\ SimAtLeastThreshold(best[2])
             THEN best[1]
             ELSE candidate_contexts[1].context_id

(***************************************************************************)
(* POST /tasks (initiate_task) over the context store                      *)
(***************************************************************************)
VARIABLES
    db_contexts,   \* committed rows of user_contexts
    db_tasks,      \* committed rows of user_tasks
    clock,         \* logical clock: creation stamps, and the source of fresh uuids
    pc,            \* position of each request in initiate_task
    request,       \* the TaskRequest and the X-User-Guest-ID of each request
    session_new,   \* the request's AsyncSession: objects added and not yet flushed
    context_ids,   \* the handler's local list context_ids
    entries_done,  \* entries of contexts_to_save the loop has gone through
    outcome,       \* how the request ended: a TaskResponse or an HTTP error
    created,       \* history: stamps of the contexts whose create_user_context returned
    batch_commit,  \* history: what the batch commit of line 384-390 did
    committed,     \* history: stamps of the rows this request's commits inserted
    tasks_written, \* history: task_ids of the task rows this request committed
    mapper,        \* one call of ParentTopicMapper.find_parent_topic taken alone
    orch,          \* one call of TaskOrchestrator.orchestrate_task
    spawn,         \* one call of AgentSpawner.spawn_agent
    tokens,        \* the table user_integration_tokens and its callers
    reasoner,      \* one call of ReasoningEngine.reason
    note,          \* one run of NoteTakingAgent.execute
    extraction,    \* one run of DataExtractionAgent.execute
    excel,         \* one spreadsheet file written and read through ExcelTools
    ident,         \* one call of TaskIdentificationService.identify_task_type
    tagger,        \* the raw tags of one artefact entry and the tags stored for them
    files,         \* one GET /files/excel/{file_path}
    artefact,      \* url_context_output.json and the calls of run_url_context_agent
    writer,        \* the file a data-extraction run writes
    executor,      \* one call of TaskExecutor.execute_workflow
    comm           \* one recipient's queue of AgentCommunicationProtocol and its callers

\* the components that the handler, the context store, the mapper and the
\* orchestrator leave alone
ServiceVars == <<ident, tagger, files, artefact, writer, executor, comm>>

ToolVars == <<spawn, tokens, reasoner, note, extraction, excel, ServiceVars>>

vars == <<db_contexts, db_tasks, clock, pc, request, session_new, context_ids,
          entries_done, outcome, created, batch_commit, committed, tasks_written,
          mapper, orch, ToolVars>>

\* TaskType members the handler distinguishes; NOTE_TAKING stands for the eight
\* members that are neither ADD_TO_CONTEXT nor CREATE_ACTION_FROM_CONTEXT
TaskTypes == {"ADD_TO_CONTEXT", "CREATE_ACTION_FROM_CONTEXT", "NOTE_TAKING"}

\* tag lists and embeddings an artefact entry may carry
EntryTags == {<<>>, <<"a">>, <<"b">>}
Embeddings == {<<1, 0>>, <<0, 1>>}

NoRequest == [user_guest_id |-> NoUser, selected_text |-> FALSE, urls |-> FALSE,
              user_context |-> FALSE, task_type |-> NoTaskType, auto_detect_intent |-> TRUE]

\* no call of find_parent_topic taken alone, no call of orchestrate_task
NoMapperCall ==
    [pc |-> "idle", min_tag_overlap |-> 1, rows |-> {}, user_guest_id |-> NoUser,
     context_tags |-> <<>>, embedding |-> NoEmbedding, candidate_contexts |-> <<>>,
     result |-> NoId]

NoOrchestration ==
    [pc |-> "idle", task_type |-> NoTaskType, user_guest_id |-> NoUser, registry |-> {},
     exception |-> "none", agent_status |-> "none", status |-> "none"]

InitStore ==
    /\ db_contexts = {}
    /\ db_tasks = {}
    /\ clock = 1
    /\ pc = [r \in Requests |-> "idle"]
    /\ request = [r \in Requests |-> NoRequest]
    /\ session_new = [r \in Requests |-> <<>>]
    /\ context_ids = [r \in Requests |-> <<>>]
    /\ entries_done = [r \in Requests |-> 0]
    /\ outcome = [r \in Requests |-> "none"]
    /\ created = [r \in Requests |-> {}]
    /\ batch_commit = [r \in Requests |-> "none"]
    /\ committed = [r \in Requests |-> {}]
    /\ tasks_written = [r \in Requests |-> {}]

\* a component that is not in use
Idle == [pc |-> "idle"]

ServicesIdle ==
    /\ ident = Idle
    /\ tagger = Idle
    /\ files = Idle
    /\ artefact = Idle
    /\ writer = Idle
    /\ executor = Idle
    /\ comm = Idle

ToolsIdle ==
    /\ ServicesIdle
    /\ spawn = Idle
    /\ tokens = Idle
    /\ reasoner = Idle
    /\ note = Idle
    /\ extraction = Idle
    /\ excel = Idle

Init ==
    /\ InitStore
    /\ mapper = NoMapperCall
    /\ orch = NoOrchestration
    /\ ToolsIdle

\* UserContext(...): context_id has a column default (uuid4) that is applied by
\* the INSERT, so it is None (NoId) until the object is flushed
UserContext(tags, embedding, user_guest_id, parent_topic_id, now) ==
    [context_id |-> NoId, context_tags |-> tags, embedding |-> embedding,
     user_guest_id |-> user_guest_id, parent_topic |-> parent_topic_id,
     timestamp |-> now]

\* the INSERT of a pending object: uuid4() yields a value no other row has,
\* here the object's creation stamp
Flushed(obj) == [obj EXCEPT !.context_id = obj.timestamp]

ContextIdsOf(rows) == {c.context_id : c \in rows}

\* the foreign key user_contexts.parent_topic -> user_contexts.context_id
ForeignKeyHolds(rows, objs) ==
    \A i \in 1..Len(objs) :
        objs[i].parent_topic = NoId \/ objs[i].parent_topic \in ContextIdsOf(rows)

FlushedRows(objs) == {Flushed(objs[i]) : i \in 1..Len(objs)}

\* session.rollback(): every pending object is expunged
rollback(objs) == <<>>

\* initiate_task, lines 304-322: the precondition and the construction of the services
InitiateTask(r) ==
    /\ pc[r] \in {"idle", "done"}
    /\ Cardinality(db_tasks) < MaxTasks
    /\ \E u \in Users, selected_text \in BOOLEAN, urls \in BOOLEAN,
          user_context \in BOOLEAN :
          LET req == [NoRequest EXCEPT !.user_guest_id = u,
                                       !.selected_text = selected_text,
                                       !.urls = urls, !.user_context = user_context]
          IN  /\ request' = [request EXCEPT ![r] = req]
              /\ IF ~selected_text /\ ~urls
                 THEN /\ pc' = [pc EXCEPT ![r] = "done"]
                      /\ outcome' = [outcome EXCEPT ![r] = "http400"]
                 ELSE /\ pc' = [pc EXCEPT ![r] = "context_agent"]
                      /\ outcome' = [outcome EXCEPT ![r] = "none"]
    \* a new call of the handler: a new session, new locals
    /\ session_new' = [session_new EXCEPT ![r] = <<>>]
    /\ context_ids' = [context_ids EXCEPT ![r] = <<>>]
    /\ entries_done' = [entries_done EXCEPT ![r] = 0]
    /\ created' = [created EXCEPT ![r] = {}]
    /\ batch_commit' = [batch_commit EXCEPT ![r] = "none"]
    /\ committed' = [committed EXCEPT ![r] = {}]
    /\ tasks_written' = [tasks_written EXCEPT ![r] = {}]
    /\ UNCHANGED <<db_contexts, db_tasks, clock, mapper, orch, ToolVars>>

\* run_url_context_agent: the artefact was parsed ("contexts"), or only the
\* final payload (or nothing) came back, or the agent call raised
RunUrlContextAgent(r) ==
    /\ pc[r] = "context_agent"
    /\ \E result \in {"contexts", "final_payload", "raise"} :
          /\ pc' = [pc EXCEPT ![r] = CASE result = "contexts" -> "ingest"
                                       [] result = "final_payload" -> "dispatch"
                                       [] OTHER -> "done"]
          /\ outcome' = [outcome EXCEPT ![r] = IF result = "raise" THEN "http500" ELSE @]
    /\ UNCHANGED <<db_contexts, db_tasks, clock, request, session_new, context_ids,
                   entries_done, created, batch_commit, committed, tasks_written,
                   mapper, orch, ToolVars>>

\* one iteration of the loop of lines 342-381 over an entry without content
SkipEntry(r) ==
    /\ pc[r] = "ingest"
    /\ entries_done[r] < MaxEntries
    /\ entries_done' = [entries_done EXCEPT ![r] = @ + 1]
    /\ UNCHANGED <<db_contexts, db_tasks, clock, pc, request, session_new,
                   context_ids, outcome, created, batch_commit, committed, tasks_written,
                   mapper, orch, ToolVars>>

\* one iteration in which create_user_context raises: session.rollback()
FailEntry(r) ==
    /\ pc[r] = "ingest"
    /\ entries_done[r] < MaxEntries
    /\ entries_done' = [entries_done EXCEPT ![r] = @ + 1]
    /\ session_new' = [session_new EXCEPT ![r] = rollback(@)]
    /\ UNCHANGED <<db_contexts, db_tasks, clock, pc, request, context_ids,
                   outcome, created, batch_commit, committed, tasks_written,
                   mapper, orch, ToolVars>>

\* UserContextRepository.create_user_context(find_parent=True): the object it
\* returns, after session.add
create_user_context(tags, embedding, user_guest_id, candidate_contexts) ==
    UserContext(tags, embedding, user_guest_id,
                find_parent_topic(candidate_contexts, tags, embedding), clock)

\* one iteration of the loop in which the context is created
SaveEntry(r) ==
    /\ pc[r] = "ingest"
    /\ entries_done[r] < MaxEntries
    /\ clock <= MaxClock
    /\ \E tags \in EntryTags, embedding \in Embeddings \cup {NoEmbedding} :
       \E candidate_contexts \in
            Orderings(tag_matching_query(db_contexts, request[r].user_guest_id, tags)) :
          LET user_context == create_user_context(tags, embedding,
                                  request[r].user_guest_id, candidate_contexts)
          IN  /\ session_new' = [session_new EXCEPT ![r] = Append(@, user_context)]
              /\ context_ids' = [context_ids EXCEPT ![r] =
                                    Append(@, user_context.context_id)]
              /\ created' = [created EXCEPT ![r] = @ \cup {user_context.timestamp}]
              /\ clock' = clock + 1
    /\ entries_done' = [entries_done EXCEPT ![r] = @ + 1]
    /\ UNCHANGED <<db_contexts, db_tasks, pc, request, outcome, batch_commit, committed,
                   tasks_written, mapper, orch, ToolVars>>

\* session.commit(): flush the pending objects and commit, or fail and leave
\* the database as it was
commit(r, ok) ==
    IF ok /\ ForeignKeyHolds(db_contexts, session_new[r])
    THEN db_contexts' = db_contexts \cup FlushedRows(session_new[r])
    ELSE UNCHANGED db_contexts

\* lines 383-390: commit all contexts at once
CommitContexts(r) ==
    /\ pc[r] = "ingest"
    /\ entries_done[r] >= 1
    /\ pc' = [pc EXCEPT ![r] = "dispatch"]
    /\ IF context_ids[r] # <<>>
       THEN \E ok \in BOOLEAN :
               /\ commit(r, ok)
               /\ batch_commit' = [batch_commit EXCEPT ![r] =
                     IF ok /\ ForeignKeyHolds(db_contexts, session_new[r])
                     THEN "committed" ELSE "rolled_back"]
               /\ committed' = [committed EXCEPT ![r] =
                     IF ok /\ ForeignKeyHolds(db_contexts, session_new[r])
                     THEN @ \cup {session_new[r][i].timestamp :
                                     i \in 1..Len(session_new[r])}
                     ELSE @]
               /\ session_new' = [session_new EXCEPT ![r] = <<>>]
       ELSE /\ batch_commit' = [batch_commit EXCEPT ![r] = "skipped"]
            /\ UNCHANGED <<db_contexts, committed, session_new>>
    /\ UNCHANGED <<db_tasks, clock, request, context_ids, entries_done, outcome, created,
                   tasks_written, mapper, orch, ToolVars>>

\* UserTaskRepository.create_user_task followed by session.commit(): the task
\* row is inserted with a fresh task_id, or the write raises
UserTask(r, task_type) ==
    [task_id |-> Cardinality(db_tasks) + 1, task_type |-> task_type,
     user_guest_id |-> request[r].user_guest_id,
     user_contexts |-> context_ids[r]]

create_user_task(r, task_type, ok) ==
    /\ pc' = [pc EXCEPT ![r] = "done"]
    /\ IF ok
       THEN /\ db_tasks' = db_tasks \cup {UserTask(r, task_type)}
            /\ tasks_written' = [tasks_written EXCEPT ![r] = @ \cup {UserTask(r, task_type).task_id}]
            /\ outcome' = [outcome EXCEPT ![r] = "response"]
       ELSE /\ outcome' = [outcome EXCEPT ![r] = "http500"]
            /\ UNCHANGED <<db_tasks, tasks_written>>

\* line 393: the branch taken when auto_detect_intent is set or no task_type is given
TakesAutoIntentBranch(req) == req.auto_detect_intent \/ req.task_type = NoTaskType

\* _handle_auto_intent_detection, line 164 with context_result a string:
\* user_context_text = request.user_context or request.selected_text or ""
UserContextTextEmpty(req) == ~req.user_context /\ ~req.selected_text

\* _handle_auto_intent_detection, line 246
AutoTaskType(req) ==
    IF req.task_type # NoTaskType THEN req.task_type ELSE "ADD_TO_CONTEXT"

\* request.task_type and request.auto_detect_intent are first read at line 393:
\* the request's record gets them there
ReadTaskType(r, task_type, auto_detect_intent) ==
    [request[r] EXCEPT !.task_type = task_type,
                       !.auto_detect_intent = auto_detect_intent]

\* _handle_auto_intent_detection
HandleAutoIntentDetection(r) ==
    /\ pc[r] = "dispatch"
    /\ \E task_type \in TaskTypes \cup {NoTaskType}, auto_detect_intent \in BOOLEAN :
        LET req == ReadTaskType(r, task_type, auto_detect_intent)
        IN  /\ TakesAutoIntentBranch(req)
            /\ request' = [request EXCEPT ![r] = req]
            /\ IF UserContextTextEmpty(req)
               THEN /\ pc' = [pc EXCEPT ![r] = "done"]
                    /\ outcome' = [outcome EXCEPT ![r] = "http400"]
                    /\ UNCHANGED <<db_tasks, tasks_written>>
               ELSE \E ok \in BOOLEAN : create_user_task(r, AutoTaskType(req), ok)
    /\ UNCHANGED <<db_contexts, clock, session_new, context_ids,
                   entries_done, created, batch_commit, committed, mapper, orch, ToolVars>>

\* lines 405-436 and 438-482: the two task types handled without intent detection
HandleExplicitTaskType(r) ==
    /\ pc[r] = "dispatch"
    /\ \E task_type \in TaskTypes \cup {NoTaskType}, auto_detect_intent \in BOOLEAN :
        LET req == ReadTaskType(r, task_type, auto_detect_intent)
        IN  /\ ~TakesAutoIntentBranch(req)
            /\ req.task_type \in {"ADD_TO_CONTEXT", "CREATE_ACTION_FROM_CONTEXT"}
            /\ request' = [request EXCEPT ![r] = req]
            /\ \E ok \in BOOLEAN : create_user_task(r, req.task_type, ok)
    /\ UNCHANGED <<db_contexts, clock, session_new, context_ids,
                   entries_done, created, batch_commit, committed, mapper, orch, ToolVars>>

\* lines 484-487: any other task type
UnsupportedTaskType(r) ==
    /\ pc[r] = "dispatch"
    /\ \E task_type \in TaskTypes \cup {NoTaskType}, auto_detect_intent \in BOOLEAN :
        LET req == ReadTaskType(r, task_type, auto_detect_intent)
        IN  /\ ~TakesAutoIntentBranch(req)
            /\ req.task_type \notin {"ADD_TO_CONTEXT", "CREATE_ACTION_FROM_CONTEXT"}
            /\ request' = [request EXCEPT ![r] = req]
    /\ pc' = [pc EXCEPT ![r] = "done"]
    /\ outcome' = [outcome EXCEPT ![r] = "http400"]
    /\ UNCHANGED <<db_contexts, db_tasks, clock, session_new, context_ids,
                   entries_done, created, batch_commit, committed, tasks_written,
                   mapper, orch, ToolVars>>

\* a row of user_contexts is deleted: ON DELETE SET NULL on parent_topic
DeleteContext(c) ==
    /\ db_contexts' =
          {IF d.parent_topic = c.context_id THEN [d EXCEPT !.parent_topic = NoId] ELSE d :
             d \in db_contexts \ {c}}
    /\ UNCHANGED <<db_tasks, clock, pc, request, session_new, context_ids,
                   entries_done, outcome, created, batch_commit, committed, tasks_written,
                   mapper, orch, ToolVars>>

RequestStep(r) ==
    \/ InitiateTask(r)
    \/ RunUrlContextAgent(r)
    \/ SkipEntry(r)
    \/ FailEntry(r)
    \/ SaveEntry(r)
    \/ CommitContexts(r)
    \/ HandleAutoIntentDetection(r)
    \/ HandleExplicitTaskType(r)
    \/ UnsupportedTaskType(r)

\* requests handled one after the other, by one handler
Next == RequestStep(1)

Spec == Init /\ [][Next]_vars

(***************************************************************************)
(* The context store under any callers: sessions that create contexts,     *)
(* commit and roll back concurrently, and deletions of rows.               *)
(***************************************************************************)
\* tag lists and embeddings of the contexts the sessions create
StoreTags == {<<>>, <<"a">>}
StoreEmbeddings == {<<1, 0>>, <<0, 1>>}

\* what a session's operations on the context store leave alone
HandlerVars == <<db_tasks, pc, request, context_ids, entries_done, outcome, created,
                 batch_commit, tasks_written, mapper, orch, ToolVars>>

\* create_user_context(find_parent=True) in session s, for any user
SessionCreate(s) ==
    /\ clock <= MaxStoreClock
    /\ Len(session_new[s]) < MaxEntries
    /\ \E u \in Users, tags \in StoreTags, embedding \in StoreEmbeddings :
       \E candidate_contexts \in Orderings(tag_matching_query(db_contexts, u, tags)) :
          session_new' = [session_new EXCEPT ![s] =
              Append(@, create_user_context(tags, embedding, u, candidate_contexts))]
    /\ clock' = clock + 1
    /\ UNCHANGED <<db_contexts, committed, HandlerVars>>

\* session.commit() in session s; a failed commit is rolled back
SessionCommit(s) ==
    /\ session_new[s] # <<>>
    /\ \E ok \in BOOLEAN : commit(s, ok)
    /\ session_new' = [session_new EXCEPT ![s] = <<>>]
    /\ UNCHANGED <<clock, committed, HandlerVars>>

\* session.rollback() in session s
SessionRollback(s) ==
    /\ session_new[s] # <<>>
    /\ session_new' = [session_new EXCEPT ![s] = rollback(@)]
    /\ UNCHANGED <<db_contexts, clock, committed, HandlerVars>>

NextStore ==
    \/ \E s \in Requests : SessionCreate(s)
    \/ \E s \in Requests : SessionCommit(s)
    \/ \E s \in Requests : SessionRollback(s)
    \/ \E c \in db_contexts : DeleteContext(c)

SpecStore == Init /\ [][NextStore]_vars

(***************************************************************************)
(* ParentTopicMapper.find_parent_topic taken alone: a mapper constructed    *)
(* with some min_tag_overlap, called over some stored rows.                 *)
(***************************************************************************)
\* rows of user_contexts the call may find in the store
MaxMapperRows == 2
\* values a caller may pass to the constructor as min_tag_overlap
MaxTagOverlap == 2

MapperTags == {<<>>, <<"a">>, <<"a", "b">>}
MapperRowEmbeddings == {NoEmbedding, <<1, 0>>, <<0, 1>>}
MapperEmbeddings == {NoEmbedding, <<1, 0>>, <<1, 1>>}

\* the stores of up to MaxMapperRows rows that create_user_context and
\* deletions can leave: a row's parent is an older root of the same user
\* that shares a tag with it
MapperRowShapes ==
    [user_guest_id : Users, context_tags : MapperTags, embedding : MapperRowEmbeddings,
     parent_topic : {NoId} \cup (1..MaxMapperRows)]

MapperStoreOf(n, f) ==
    {[context_id |-> i, context_tags |-> f[i].context_tags, embedding |-> f[i].embedding,
      user_guest_id |-> f[i].user_guest_id, parent_topic |-> f[i].parent_topic,
      timestamp |-> i] : i \in 1..n}

MapperStoreReachable(rows) ==
    \A c \in rows : c.parent_topic # NoId =>
        \E p \in rows : /\ p.context_id = c.parent_topic
                        /\ p.timestamp < c.timestamp
                        /\ p.user_guest_id = c.user_guest_id
                        /\ p.parent_topic = NoId
                        /\ TagSet(p.context_tags) \cap TagSet(c.context_tags) # {}

InitMapper ==
    /\ InitStore
    /\ orch = NoOrchestration
    /\ ToolsIdle
    /\ \E n \in 0..MaxMapperRows :
       \E f \in [1..n -> MapperRowShapes] :
       \E min_tag_overlap \in 1..MaxTagOverlap, u \in Users,
          tags \in MapperTags, embedding \in MapperEmbeddings :
          /\ MapperStoreReachable(MapperStoreOf(n, f))
          /\ mapper = [pc |-> "ready", min_tag_overlap |-> min_tag_overlap,
                       rows |-> MapperStoreOf(n, f),
                       user_guest_id |-> u, context_tags |-> tags,
                       embedding |-> embedding,
                       candidate_contexts |-> <<>>, result |-> NoId]

\* await mapper.find_parent_topic(session, tags, user_guest_id, embedding)
FindParentTopic ==
    /\ mapper.pc = "ready"
    /\ \E candidate_contexts \in
            Orderings(tag_matching_query(mapper.rows, mapper.user_guest_id,
                                         mapper.context_tags)) :
          mapper' = [mapper EXCEPT
                        !.pc = "returned",
                        !.candidate_contexts = candidate_contexts,
                        !.result = find_parent_topic(candidate_contexts,
                                                     mapper.context_tags,
                                                     mapper.embedding)]
    /\ UNCHANGED <<db_contexts, db_tasks, clock, pc, request, session_new, context_ids,
                   entries_done, outcome, created, batch_commit, committed,
                   tasks_written, orch, ToolVars>>

NextMapper == FindParentTopic

SpecMapper == InitMapper /\ [][NextMapper]_vars

(***************************************************************************)
(* TaskOrchestrator.orchestrate_task (every task is atomic:                 *)
(* _execute_atomic_task)                                                    *)
(***************************************************************************)
\* the status an AgentResult may carry
AgentStatuses == {"completed", "failed", "partial"}

\* the registry, as the set of task types some registered agent handles
Registries == SUBSET TaskTypes

InitOrch ==
    /\ InitStore
    /\ mapper = NoMapperCall
    /\ ToolsIdle
    /\ \E task_type \in TaskTypes, u \in Users \cup {NoUser}, registry \in Registries :
          orch = [pc |-> "lookup", task_type |-> task_type, user_guest_id |-> u,
                  registry |-> registry, exception |-> "none",
                  agent_status |-> "none", status |-> "none"]

OrchUnchanged ==
    UNCHANGED <<db_contexts, db_tasks, clock, pc, request, session_new, context_ids,
                entries_done, outcome, created, batch_commit, committed,
                tasks_written, mapper, ToolVars>>

\* agent_registry.get_agent_class_and_metadata(task_type); no agent: a failed result
GetAgentClassAndMetadata ==
    /\ orch.pc = "lookup"
    /\ IF orch.task_type \in orch.registry
       THEN orch' = [orch EXCEPT !.pc = "spawn"]
       ELSE orch' = [orch EXCEPT !.pc = "returned", !.status = "failed"]
    /\ OrchUnchanged

\* agent = await self.agent_spawner.spawn_agent(...), called outside any try:
\* an exception of the tool-surface composition or of agent_class(**agent_kwargs)
\* leaves orchestrate_task
SpawnAgent ==
    /\ orch.pc = "spawn"
    /\ \E raised \in BOOLEAN :
          orch' = IF raised
                  THEN [orch EXCEPT !.pc = "raised", !.exception = "spawn_agent"]
                  ELSE [orch EXCEPT !.pc = "execute"]
    /\ OrchUnchanged

\* try: result = await agent.execute(...); TaskExecutionResult(status="completed", ...)
\* except Exception: TaskExecutionResult(status="failed", ...)
ExecuteAgent ==
    /\ orch.pc = "execute"
    /\ \/ \E agent_status \in AgentStatuses :
             orch' = [orch EXCEPT !.pc = "returned", !.agent_status = agent_status,
                                  !.status = "completed"]
       \/ orch' = [orch EXCEPT !.pc = "returned", !.exception = "execute",
                               !.status = "failed"]
    /\ OrchUnchanged

NextOrch ==
    \/ GetAgentClassAndMetadata
    \/ SpawnAgent
    \/ ExecuteAgent

SpecOrch == InitOrch /\ [][NextOrch]_vars

(***************************************************************************)
(* AgentSpawner.spawn_agent: the composition of the agent's tool surface    *)
(* and the construction of the agent.                                       *)
(***************************************************************************)
\* the variables of the handler, the context store, the mapper and the
\* orchestrator
CoreVars == <<db_contexts, db_tasks, clock, pc, request, session_new, context_ids,
              entries_done, outcome, created, batch_commit, committed, tasks_written,
              mapper, orch>>

\* self.mcp_servers_pool
McpServersPool == {"excel", "notion"}

\* server names an agent's metadata may require
ServerNames == McpServersPool \cup {"composio"}

\* tool names an agent's metadata may require, as tool.split("__")
ToolNames ==
    {<<"mcp", "excel", "excel_write">>, <<"mcp", "notion", "append_blocks">>,
     <<"mcp", "trello", "create_card">>, <<"web_search">>}

\* AgentSpawner._get_missing_tools
get_missing_tools(required_tools, mcp_servers) ==
    {tool \in required_tools :
        \/ Len(tool) < 2
        \/ tool[1] # "mcp"
        \/ tool[2] \notin mcp_servers}

\* the servers of the pool whose name is in required_mcp_servers
PoolServers(required_mcp_servers) ==
    {name \in McpServersPool : name \in required_mcp_servers}

need_composio(required_tools, required_mcp_servers, use_composio) ==
    \/ "composio" \in required_mcp_servers
    \/ /\ use_composio
       /\ get_missing_tools(required_tools, PoolServers(required_mcp_servers)) # {}

\* what create_composio_mcp_server may do: return a server, return None
\* because COMPOSIO_API_KEY is not set, or catch a failure and return None,
\* before or after composio.create made the session
ComposioOutcomes == {"server", "no_api_key", "create_failed", "tools_failed"}

InitSpawn ==
    /\ InitStore
    /\ ServicesIdle
    /\ mapper = NoMapperCall
    /\ orch = NoOrchestration
    /\ tokens = Idle
    /\ reasoner = Idle
    /\ note = Idle
    /\ extraction = Idle
    /\ excel = Idle
    /\ \E u \in Users \cup {NoUser}, env_user_id \in Users \cup {NoUser},
          required_tools \in SUBSET ToolNames,
          required_mcp_servers \in SUBSET ServerNames,
          use_composio_fallback \in BOOLEAN :
          spawn = [pc |-> "compose",
                   user_guest_id |-> u,
                   env_user_id |-> env_user_id,
                   required_tools |-> required_tools,
                   required_mcp_servers |-> required_mcp_servers,
                   use_composio_fallback |-> use_composio_fallback,
                   mcp_servers |-> {},
                   composio_sessions |-> {}]

SpawnUnchanged == UNCHANGED <<CoreVars, tokens, reasoner, note, extraction, excel,
                               ServiceVars>>

\* spawn_agent, lines 147-195: mcp_servers and the Composio fallback;
\* user_id = os.getenv("USER_ID")
ComposeToolSurface ==
    /\ spawn.pc = "compose"
    /\ \E composio \in ComposioOutcomes :
          LET need == need_composio(spawn.required_tools, spawn.required_mcp_servers,
                                    spawn.use_composio_fallback)
              user_id == spawn.env_user_id
          IN  spawn' = [spawn EXCEPT
                  !.pc = "construct",
                  !.mcp_servers =
                      PoolServers(spawn.required_mcp_servers)
                         \cup (IF need /\ composio = "server" THEN {"composio"} ELSE {}),
                  !.composio_sessions =
                      IF need /\ composio \in {"server", "tools_failed"}
                      THEN {user_id} ELSE {}]
    /\ SpawnUnchanged

\* agent = agent_class(**agent_kwargs): the agent, or the constructor's exception
ConstructAgent ==
    /\ spawn.pc = "construct"
    /\ \E raised \in BOOLEAN :
          spawn' = [spawn EXCEPT !.pc = IF raised THEN "raised" ELSE "spawned"]
    /\ SpawnUnchanged

NextSpawn ==
    \/ ComposeToolSurface
    \/ ConstructAgent

SpecSpawn == InitSpawn /\ [][NextSpawn]_vars

(***************************************************************************)
(* UserIntegrationTokenRepository: upsert_token and soft_delete, called by  *)
(* the handlers of app/api/integrations.py, each request in its own         *)
(* session.                                                                 *)
(***************************************************************************)
MaxTokenOps == 3
TokenSessions == {1, 2}
IntegrationTools == {"notion", "trello"}
ApiKeys == {"k1", "k2"}
NoRow == [id |-> NoId]
NoTokenOp == [op |-> "none"]
TokenPairs == Users \X IntegrationTools
SessionIdle == [pc |-> "idle"]

\* the rows of user_integration_tokens of one (user_guest_id, integration_tool)
TokenRowsOf(rows, user_guest_id, integration_tool) ==
    {row \in rows : row.user_guest_id = user_guest_id
                    /\ row.integration_tool = integration_tool}

\* UniqueConstraint("user_guest_id", "integration_tool"): may a row of this
\* pair be inserted
uq_user_guest_integration(rows, user_guest_id, integration_tool) ==
    TokenRowsOf(rows, user_guest_id, integration_tool) = {}

InitTokens ==
    /\ InitStore
    /\ ServicesIdle
    /\ mapper = NoMapperCall
    /\ orch = NoOrchestration
    /\ spawn = Idle
    /\ reasoner = Idle
    /\ note = Idle
    /\ extraction = Idle
    /\ excel = Idle
    /\ tokens = [pc |-> "run",
                 rows |-> {},
                 next_id |-> 1,
                 ops |-> 0,
                 sessions |-> [s \in TokenSessions |-> SessionIdle],
                 last |-> [pair \in TokenPairs |-> NoTokenOp]]

TokensUnchanged == UNCHANGED <<CoreVars, spawn, reasoner, note, extraction, excel,
                                ServiceVars>>

\* upsert_token, lines 65-71: the SELECT of the row of the pair, whatever its
\* is_deleted; the session keeps the row as it was loaded
UpsertSelect(s, user_guest_id, integration_tool, api_key) ==
    /\ tokens.pc = "run"
    /\ tokens.sessions[s].pc = "idle"
    /\ tokens.ops < MaxTokenOps
    /\ LET found == TokenRowsOf(tokens.rows, user_guest_id, integration_tool)
       IN  /\ Cardinality(found) <= 1
           /\ tokens' = [tokens EXCEPT
                 !.ops = @ + 1,
                 !.sessions[s] =
                     [pc |-> "selected",
                      user_guest_id |-> user_guest_id,
                      integration_tool |-> integration_tool,
                      api_key |-> api_key,
                      row |-> IF found = {} THEN NoRow ELSE CHOOSE row \in found : TRUE]]
    /\ TokensUnchanged

\* the UPDATE the flush of a loaded row emits: by primary key, setting the
\* attributes whose value differs from the loaded one
FlushUpdate(rows, loaded, api_key) ==
    {IF row.id = loaded.id
     THEN [row EXCEPT
             !.api_key = IF api_key # loaded.api_key THEN api_key ELSE @,
             !.is_deleted = IF loaded.is_deleted THEN FALSE ELSE @]
     ELSE row : row \in rows}

\* upsert_token, lines 75-96, and the handler's session.commit(): the update
\* of the loaded row, or the insert of a new one; ok is FALSE when the
\* database fails, and the insert raises when the unique constraint forbids it
UpsertFlushCommit(s, ok) ==
    /\ tokens.pc = "run"
    /\ tokens.sessions[s].pc = "selected"
    /\ LET call == tokens.sessions[s]
           pair == <<call.user_guest_id, call.integration_tool>>
           token == [id |-> tokens.next_id,
                     user_guest_id |-> call.user_guest_id,
                     integration_tool |-> call.integration_tool,
                     api_key |-> call.api_key,
                     is_deleted |-> FALSE]
           done == [op |-> "upsert", api_key |-> call.api_key]
       IN  IF ~ok
           THEN tokens' = [tokens EXCEPT !.sessions[s] = SessionIdle]
           ELSE IF call.row # NoRow
           THEN tokens' = [tokens EXCEPT
                   !.rows = FlushUpdate(tokens.rows, call.row, call.api_key),
                   !.last[pair] = done,
                   !.sessions[s] = SessionIdle]
           ELSE IF uq_user_guest_integration(tokens.rows, call.user_guest_id,
                                             call.integration_tool)
           THEN tokens' = [tokens EXCEPT
                   !.rows = @ \cup {token},
                   !.next_id = @ + 1,
                   !.last[pair] = done,
                   !.sessions[s] = SessionIdle]
           ELSE tokens' = [tokens EXCEPT !.sessions[s] = SessionIdle]
    /\ TokensUnchanged

\* soft_delete and the handler's session.commit(): one UPDATE of the rows of
\* the pair that are not deleted
SoftDelete(user_guest_id, integration_tool, ok) ==
    /\ tokens.pc = "run"
    /\ tokens.ops < MaxTokenOps
    /\ tokens' = [tokens EXCEPT
          !.ops = @ + 1,
          !.rows = IF ok
                   THEN {IF row \in TokenRowsOf(tokens.rows, user_guest_id, integration_tool)
                            /\ ~row.is_deleted
                         THEN [row EXCEPT !.is_deleted = TRUE]
                         ELSE row : row \in tokens.rows}
                   ELSE @,
          !.last[<<user_guest_id, integration_tool>>] =
              IF ok THEN [op |-> "soft_delete"] ELSE @]
    /\ TokensUnchanged

NextTokens ==
    \/ \E s \in TokenSessions, user_guest_id \in Users,
          integration_tool \in IntegrationTools, api_key \in ApiKeys :
          UpsertSelect(s, user_guest_id, integration_tool, api_key)
    \/ \E s \in TokenSessions, ok \in BOOLEAN : UpsertFlushCommit(s, ok)
    \/ \E user_guest_id \in Users, integration_tool \in IntegrationTools, ok \in BOOLEAN :
          SoftDelete(user_guest_id, integration_tool, ok)

SpecTokens == InitTokens /\ [][NextTokens]_vars

(***************************************************************************)
(* ReasoningEngine.reason: the single-shot path (query) and the tool-server *)
(* loop (ClaudeSDKClient), both inside one try.                             *)
(***************************************************************************)
MaxMessages == 3

\* what the backend may raise: the SDK's errors and the errors of the
\* transport under it, all of them subclasses of Exception
BackendErrors == {"CLIConnectionError", "ProcessError", "CLIJSONDecodeError", "TimeoutError"}

\* what the backend may yield; a ResultMessage has a result text or none
BackendMessages == {"ResultMessage_text", "ResultMessage_empty", "AssistantMessage",
                    "SystemMessage"}

NoReturn == [result |-> "not returned"]

\* a handler that catches the connection error alone
except_CLIConnectionError(e) == e = "CLIConnectionError"

\* the handler `except Exception as e`: does it catch e
except_Exception(e) == e \in BackendErrors

InitReasoner ==
    /\ InitStore
    /\ ServicesIdle
    /\ mapper = NoMapperCall
    /\ orch = NoOrchestration
    /\ spawn = Idle
    /\ tokens = Idle
    /\ note = Idle
    /\ extraction = Idle
    /\ excel = Idle
    /\ \E mcp_servers \in BOOLEAN, tools \in BOOLEAN :
          reasoner = [pc |-> "try",
                      mcp_servers |-> mcp_servers,
                      tools |-> tools,
                      received |-> 0,
                      last_result |-> "None",
                      last_assistant |-> FALSE,
                      raised |-> "None",
                      returned |-> NoReturn]

ReasonerUnchanged == UNCHANGED <<CoreVars, spawn, tokens, note, extraction, excel,
                                  ServiceVars>>

\* an exception e raised inside the try: lines 180-185
Except(e) ==
    IF except_Exception(e)
    THEN [reasoner EXCEPT
            !.pc = "returned",
            !.raised = e,
            !.returned = [result |-> "None", error |-> e, metadata |-> "{}"]]
    ELSE [reasoner EXCEPT !.pc = "raised", !.raised = e]

\* lines 124-141 and 155-171: the result map of a run without exception
ResultMap ==
    [result |-> IF reasoner.last_result = "ResultMessage_text" THEN "result text"
                ELSE IF reasoner.last_assistant THEN "assistant text"
                ELSE "",
     metadata |-> IF reasoner.last_result = "None" THEN "no usage" ELSE "usage"]

\* the loop bodies of lines 119-122 and 149-152
Record(message) ==
    [reasoner EXCEPT
        !.received = @ + 1,
        !.last_result = IF message \in {"ResultMessage_text", "ResultMessage_empty"}
                        THEN message ELSE @,
        !.last_assistant = IF message = "AssistantMessage" THEN TRUE ELSE @]

\* line 117: async with ClaudeSDKClient(options=options) as client
EnterClient ==
    /\ reasoner.pc = "try"
    /\ reasoner.mcp_servers
    /\ \E raised \in {"ok"} \cup BackendErrors :
          reasoner' = IF raised = "ok"
                      THEN [reasoner EXCEPT !.pc = "client_query"]
                      ELSE Except(raised)
    /\ ReasonerUnchanged

\* line 118: await client.query(full_prompt)
ClientQuery ==
    /\ reasoner.pc = "client_query"
    /\ \E raised \in {"ok"} \cup BackendErrors :
          reasoner' = IF raised = "ok"
                      THEN [reasoner EXCEPT !.pc = "receive_response"]
                      ELSE Except(raised)
    /\ ReasonerUnchanged

\* lines 119-123: one message of client.receive_response(), its end, or its
\* exception
ReceiveResponse ==
    /\ reasoner.pc = "receive_response"
    /\ \/ /\ reasoner.received < MaxMessages
          /\ \E message \in BackendMessages : reasoner' = Record(message)
       \/ reasoner' = [reasoner EXCEPT !.pc = "client_exit"]
       \/ \E e \in BackendErrors : reasoner' = Except(e)
    /\ ReasonerUnchanged

\* the end of the async with, then lines 124-141 and 173-179
ExitClientAndReturn ==
    /\ reasoner.pc = "client_exit"
    /\ \E raised \in {"ok"} \cup BackendErrors :
          reasoner' = IF raised = "ok"
                      THEN [reasoner EXCEPT !.pc = "returned", !.returned = ResultMap]
                      ELSE Except(raised)
    /\ ReasonerUnchanged

\* lines 143-171 and 173-179: one message of query(), or its end and the
\* return, or its exception
QueryIterate ==
    /\ reasoner.pc = "try"
    /\ ~reasoner.mcp_servers
    /\ \/ /\ reasoner.received < MaxMessages
          /\ \E message \in BackendMessages : reasoner' = Record(message)
       \/ reasoner' = [reasoner EXCEPT !.pc = "returned", !.returned = ResultMap]
       \/ \E e \in BackendErrors : reasoner' = Except(e)
    /\ ReasonerUnchanged

NextReasoner ==
    \/ EnterClient
    \/ ClientQuery
    \/ ReceiveResponse
    \/ ExitClientAndReturn
    \/ QueryIterate

SpecReasoner == InitReasoner /\ [][NextReasoner]_vars

(***************************************************************************)
(* NoteTakingAgent.execute: search, then append to the found page or create *)
(* a page.  The notes service is the list of calls made on NotionClient.    *)
(***************************************************************************)
MaxResults == 2
PageIds == {"p1", "p2", "p3"}
NoPage == "None"

\* what self.reason returns for a payload request: an error, a text with no
\* usable payload, or a payload
ReasonOutcomes == {"error", "invalid", "payload"}

\* the search results NotionClient.search may return: pages in the order of
\* the service, no page twice
SearchResults ==
    {results \in UNION {[1..n -> PageIds] : n \in 0..MaxResults} :
        \A i, j \in DOMAIN results : i # j => results[i] # results[j]}

\* the url item.get("url") of a page
UrlOf(page_id) == <<"url", page_id>>

\* task_input.get("selected_text"), stripped
SelectedTexts == {"", "Amazon Aurora is a database"}

NoNoteResult == [status |-> "running"]
NoteFailed == [status |-> "failed"]

InitNote ==
    /\ InitStore
    /\ ServicesIdle
    /\ mapper = NoMapperCall
    /\ orch = NoOrchestration
    /\ spawn = Idle
    /\ tokens = Idle
    /\ reasoner = Idle
    /\ extraction = Idle
    /\ excel = Idle
    /\ \E selected_text \in SelectedTexts :
          note = [pc |-> "search_payload",
               selected_text |-> selected_text,
               results |-> <<>>,
               target_page_id |-> NoPage,
               target_page_url |-> NoPage,
               block_id |-> NoPage,
               appended |-> <<>>,
               created |-> 0,
               result |-> NoNoteResult]

NoteUnchanged == UNCHANGED <<CoreVars, spawn, tokens, reasoner, extraction, excel,
                              ServiceVars>>

NoteFail == [note EXCEPT !.pc = "returned", !.result = NoteFailed]

\* lines 114-161: the search payload of the reasoner
SearchPayload ==
    /\ note.pc = "search_payload"
    /\ \E reason \in ReasonOutcomes :
          note' = IF reason = "payload" THEN [note EXCEPT !.pc = "search"] ELSE NoteFail
    /\ NoteUnchanged

\* lines 167-184: the search, its results and the target page, or the
\* NotionClientError caught at line 307
Search ==
    /\ note.pc = "search"
    /\ \/ note' = NoteFail
       \/ \E results \in SearchResults :
             LET first == IF results # <<>> THEN results[1] ELSE NoPage
                 page_exists == Len(results) > 0
             IN  note' = [note EXCEPT
                     !.pc = IF page_exists THEN "append_payload" ELSE "create_payload",
                     !.results = results,
                     !.target_page_id = first,
                     !.target_page_url = IF first = NoPage THEN NoPage ELSE UrlOf(first)]
    /\ NoteUnchanged

\* lines 186-225: the append payload of the reasoner; block_id is the page_id
\* of the payload
AppendPayload ==
    /\ note.pc = "append_payload"
    /\ \/ \E reason \in ReasonOutcomes \ {"payload"} : note' = NoteFail
       \/ \E page_id \in PageIds :
             note' = [note EXCEPT !.pc = "append", !.block_id = page_id]
    /\ NoteUnchanged

\* lines 227-245: append_block_children(block_id, ...) and the result, or the
\* NotionClientError of the call
AppendBlockChildren ==
    /\ note.pc = "append"
    /\ \E ok \in BOOLEAN :
          note' = [note EXCEPT
              !.pc = "returned",
              !.appended = Append(@, note.block_id),
              !.result = IF ok
                         THEN [status |-> "completed",
                               notion_page_id |-> note.block_id,
                               notion_page_url |-> note.target_page_url,
                               content_preview |-> note.selected_text]
                         ELSE NoteFailed]
    /\ NoteUnchanged

\* lines 246-281: the create payload of the reasoner
CreatePayload ==
    /\ note.pc = "create_payload"
    /\ \E reason \in ReasonOutcomes :
          note' = IF reason = "payload" THEN [note EXCEPT !.pc = "create"] ELSE NoteFail
    /\ NoteUnchanged

\* lines 283-302: create_page and the result, or the NotionClientError of the
\* call (no parent page, or the service refuses)
CreatePage ==
    /\ note.pc = "create"
    /\ \/ note' = NoteFail
       \/ \E ok \in BOOLEAN, page_id \in PageIds :
             note' = [note EXCEPT
                 !.pc = "returned",
                 !.created = @ + 1,
                 !.result = IF ok
                            THEN [status |-> "completed",
                                  notion_page_id |-> page_id,
                                  notion_page_url |-> UrlOf(page_id),
                                  content_preview |-> note.selected_text]
                            ELSE NoteFailed]
    /\ NoteUnchanged

NextNote ==
    \/ SearchPayload
    \/ Search
    \/ AppendPayload
    \/ AppendBlockChildren
    \/ CreatePayload
    \/ CreatePage

SpecNote == InitNote /\ [][NextNote]_vars

(***************************************************************************)
(* DataExtractionAgent: the constructor, and execute from the resolution of *)
(* the columns to the write of the spreadsheet and the result.              *)
(***************************************************************************)
MaxColumns == 2
MaxRows == 2

\* column names as they arrive; " name" is "name" with white space around it
RawColumns == {"name", " name", "role", ""}

\* str.strip
Strip(s) == IF s = " name" THEN "name" ELSE s

\* the keys an object of the reasoner's array may have, in one order
RowKeys == <<"name", "role">>

ElementsOf(seq) == {seq[i] : i \in DOMAIN seq}

\* the parameters of DataExtractionAgent.__init__, lines 19-29
InitParams == {"agent_id", "prompt_manager", "tool_integration", "evaluator",
               "reasoning_engine", "excel_tools", "semantic_knowledge", "agent_context"}

\* the keyword arguments the constructor is called with: the components every
\* agent gets and, when a tool surface is passed, mcp_servers and
\* allowed_tools
Kwargs(tool_surface) ==
    {"agent_id", "prompt_manager", "tool_integration", "evaluator", "reasoning_engine",
     "excel_tools"}
        \cup (IF tool_surface THEN {"mcp_servers", "allowed_tools"} ELSE {})

\* lines 95-103 of _parse_columns_from_input: drop the empty names and the
\* names already seen
RECURSIVE Normalized(_, _)
Normalized(columns, seen) ==
    IF columns = <<>> THEN <<>>
    ELSE IF Head(columns) = "" \/ Head(columns) \in seen
         THEN Normalized(Tail(columns), seen)
         ELSE <<Head(columns)>> \o Normalized(Tail(columns), seen \cup {Head(columns)})

\* lines 86-93: the candidates as a list (or a comma separated string), or
\* as the keys of a dict
RECURSIVE Stripped(_)
Stripped(candidates) ==
    IF candidates = <<>> THEN <<>>
    ELSE <<Strip(Head(candidates))>> \o Stripped(Tail(candidates))

parse_columns_from_input(kind, candidates) ==
    IF candidates = <<>> THEN <<>>
    ELSE IF kind = "list" THEN Normalized(Stripped(candidates), {})
    ELSE Normalized(candidates, {})

\* the objects of the array the reasoner returns: a dict with some of the
\* keys, or an element that is no dict
ScalarRow == [kind |-> "scalar", items |-> [key \in {} |-> "Jane"]]
ReasonerRows ==
    {[kind |-> "dict", items |-> [key \in keys |-> "Jane"]] : keys \in SUBSET ElementsOf(RowKeys)}
        \cup {ScalarRow}

\* list(row.keys())
KeysOf(row) == SelectSeq(RowKeys, LAMBDA key : key \in DOMAIN row.items)

\* the row as the reasoner returned it
raw_row(row, columns) == row.items

\* _normalize_data, line 204: {col: row.get(col, "") for col in columns}
normalize_row(row, columns) ==
    [col \in ElementsOf(columns) |-> IF col \in DOMAIN row.items THEN row.items[col] ELSE ""]

normalize_data(data, columns) ==
    [i \in DOMAIN data |-> normalize_row(data[i], columns)]

ExtractionRunning == [status |-> "running"]
ExtractionFailed == [status |-> "failed"]

InitExtraction ==
    /\ InitStore
    /\ ServicesIdle
    /\ mapper = NoMapperCall
    /\ orch = NoOrchestration
    /\ spawn = Idle
    /\ tokens = Idle
    /\ reasoner = Idle
    /\ note = Idle
    /\ excel = Idle
    /\ \E tool_surface \in BOOLEAN, kind \in {"list", "dict"},
          n \in 0..MaxColumns, file \in {"None", "new", "existing"} :
          \E candidates \in [1..n -> RawColumns] :
             /\ kind = "dict" => \A i, j \in 1..n : i # j => candidates[i] # candidates[j]
             /\ extraction = [pc |-> "construct",
                              tool_surface |-> tool_surface,
                              kind |-> kind,
                              candidates |-> candidates,
                              file |-> file,
                              columns |-> <<>>,
                              extracted_data |-> <<>>,
                              direct_calls |-> <<>>,
                              tool_calls |-> <<>>,
                              result |-> ExtractionRunning]

ExtractionUnchanged == UNCHANGED <<CoreVars, spawn, tokens, reasoner, note, excel,
                                    ServiceVars>>

\* DataExtractionAgent(**kwargs): a keyword that is no parameter of __init__
\* is a TypeError
ConstructDataExtractionAgent ==
    /\ extraction.pc = "construct"
    /\ extraction' = [extraction EXCEPT
          !.pc = IF Kwargs(extraction.tool_surface) \subseteq InitParams
                 THEN "resolve" ELSE "type_error"]
    /\ ExtractionUnchanged

\* execute, lines 247-272: the columns, the sheet and the file name
ResolveColumns ==
    /\ extraction.pc = "resolve"
    /\ extraction' = [extraction EXCEPT
          !.pc = "extract",
          !.columns = parse_columns_from_input(extraction.kind, extraction.candidates)]
    /\ ExtractionUnchanged

\* execute, lines 273-303: the reasoner's array, the final columns and the
\* normalized rows; an element that is no dict raises, and the exception is
\* caught at line 365
ExtractAndNormalize ==
    /\ extraction.pc = "extract"
    /\ \E n \in 0..MaxRows : \E data \in [1..n -> ReasonerRows] :
          LET first_keys == IF extraction.columns # <<>> THEN extraction.columns
                            ELSE KeysOf(data[1])
              columns == IF first_keys # <<>> THEN first_keys ELSE <<"data">>
              raises == \/ extraction.columns = <<>> /\ data[1] = ScalarRow
                        \/ \E i \in 1..n : data[i] = ScalarRow
          IN  extraction' =
                 IF n = 0 \/ raises
                 THEN [extraction EXCEPT !.pc = "returned", !.result = ExtractionFailed]
                 ELSE [extraction EXCEPT
                         !.pc = "write",
                         !.columns = columns,
                         !.extracted_data = data]
    /\ ExtractionUnchanged

\* execute, lines 308-363: append_to_excel on the existing file or
\* create_excel_file, both called on self.excel_tools, then the result
WriteExcelAndReturn ==
    /\ extraction.pc = "write"
    /\ \E ok \in BOOLEAN :
          LET call == IF extraction.file = "existing" THEN "append_to_excel"
                      ELSE "create_excel_file"
          IN  extraction' = [extraction EXCEPT
                  !.pc = "returned",
                  !.direct_calls = Append(@, call),
                  !.result =
                      IF ok
                      THEN [status |-> "completed",
                            excel_file_path |-> <<"ExcelTools", call>>,
                            columns |-> extraction.columns,
                            extracted_data |-> normalize_data(extraction.extracted_data,
                                                              extraction.columns)]
                      ELSE ExtractionFailed]
    /\ ExtractionUnchanged

NextExtraction ==
    \/ ConstructDataExtractionAgent
    \/ ResolveColumns
    \/ ExtractAndNormalize
    \/ WriteExcelAndReturn

SpecExtraction == InitExtraction /\ [][NextExtraction]_vars

(***************************************************************************)
(* ExcelTools: create_excel_file, append_to_excel and read_excel on one     *)
(* file, in the builds the imports of lines 7-17 allow.                     *)
(***************************************************************************)
MaxExcelRows == 2
MaxAppends == 2

\* the builds in which ExcelTools() can be constructed: openpyxl installed
\* (OPENPYXL_AVAILABLE is True and PANDAS_AVAILABLE is never bound), or
\* pandas installed without openpyxl
Builds == {"openpyxl", "pandas"}

ExcelColumns == <<"name", "price">>
CellValues == [name |-> {"Product A", "Product B"}, price |-> {100}]

\* the rows of one call: each a dict over the columns
ExcelRows == [name : CellValues.name, price : CellValues.price]
ExcelData == UNION {[1..n -> ExcelRows] : n \in 1..MaxExcelRows}

\* str(value) of a cell value
Coerced(value) == IF value = 100 THEN "100" ELSE value
CoercedRow(row) == [col \in DOMAIN row |-> Coerced(row[col])]

\* the module globals a function of excel_tools.py can read in a build
BoundGlobals(build) ==
    IF build = "openpyxl" THEN {"OPENPYXL_AVAILABLE"}
    ELSE {"OPENPYXL_AVAILABLE", "PANDAS_AVAILABLE"}

NotRead == [status |-> "not read"]

InitExcel ==
    /\ InitStore
    /\ ServicesIdle
    /\ mapper = NoMapperCall
    /\ orch = NoOrchestration
    /\ spawn = Idle
    /\ tokens = Idle
    /\ reasoner = Idle
    /\ note = Idle
    /\ extraction = Idle
    /\ \E build \in Builds :
          excel = [pc |-> "create",
                   build |-> build,
                   sheet |-> <<>>,
                   written |-> <<>>,
                   appends |-> 0,
                   read |-> NotRead]

ExcelUnchanged == UNCHANGED <<CoreVars, spawn, tokens, reasoner, note, extraction,
                               ServiceVars>>

\* create_excel_file: with openpyxl the header and one sheet row per row of
\* data; with pandas alone to_excel(engine="openpyxl") raises
CreateExcelFile ==
    /\ excel.pc = "create"
    /\ \E data \in ExcelData :
          excel' = IF excel.build = "openpyxl"
                   THEN [excel EXCEPT
                           !.pc = "written",
                           !.sheet = <<ExcelColumns>> \o data,
                           !.written = data]
                   ELSE [excel EXCEPT !.pc = "raised"]
    /\ ExcelUnchanged

\* append_to_excel, same columns and sheet: the rows go after ws.max_row
AppendToExcel ==
    /\ excel.pc = "written"
    /\ excel.appends < MaxAppends
    /\ \E data \in ExcelData :
          excel' = [excel EXCEPT
              !.appends = @ + 1,
              !.sheet = @ \o data,
              !.written = @ \o data]
    /\ ExcelUnchanged

\* read_excel, lines 232-271: the test of PANDAS_AVAILABLE comes first, and
\* a global that is not bound raises NameError
ReadExcel ==
    /\ excel.pc = "written"
    /\ excel' = [excel EXCEPT
          !.pc = "read",
          !.read = IF "PANDAS_AVAILABLE" \notin BoundGlobals(excel.build)
                   THEN [status |-> "NameError"]
                   ELSE [status |-> "rows", rows |-> Tail(excel.sheet)]]
    /\ ExcelUnchanged

NextExcel ==
    \/ CreateExcelFile
    \/ AppendToExcel
    \/ ReadExcel

SpecExcel == InitExcel /\ [][NextExcel]_vars

(***************************************************************************)
(* The components added below leave the handler, the stores and the agents' *)
(* components alone.                                                        *)
(***************************************************************************)
AgentVars == <<CoreVars, spawn, tokens, reasoner, note, extraction, excel>>

AgentsIdle ==
    /\ InitStore
    /\ mapper = NoMapperCall
    /\ orch = NoOrchestration
    /\ spawn = Idle
    /\ tokens = Idle
    /\ reasoner = Idle
    /\ note = Idle
    /\ extraction = Idle
    /\ excel = Idle

(***************************************************************************)
(* TaskIdentificationService.identify_task_type: the identifier's reply,    *)
(* _parse_task_type and _parse_alternative_types.                           *)
(***************************************************************************)
MaxAlternatives == 2

\* class TaskType: the members, each with the words of its name (its value is
\* the same string as its name)
TaskTypeWords ==
    [NOTE_TAKING |-> <<"note", "taking">>,
     ADD_TO_KNOWLEDGE_BASE |-> <<"add", "to", "knowledge", "base">>,
     QUESTION_ANSWER |-> <<"question", "answer">>,
     CREATE_TODO |-> <<"create", "todo">>,
     CREATE_DIAGRAMS |-> <<"create", "diagrams">>,
     ADD_TO_GOOGLE_SHEETS |-> <<"add", "to", "google", "sheets">>,
     CREATE_LOCATION_MAP |-> <<"create", "location", "map">>,
     COMPARE_SHOPPING_PRICES |-> <<"compare", "shopping", "prices">>,
     CREATE_ACTION_FROM_CONTEXT |-> <<"create", "action", "from", "context">>,
     ADD_TO_CONTEXT |-> <<"add", "to", "context">>]

TaskType == DOMAIN TaskTypeWords

\* a string of the reply: its words, the separator between them and its case
ReplyWords == {<<"note", "taking">>, <<"question", "answer">>,
               <<"add", "to", "knowledge", "base">>,
               <<"extract", "data", "to", "sheet">>, <<"summarise">>}
ReplyStrings == [words : ReplyWords, sep : {"-", "_", " "}, upper : BOOLEAN]
AlternativeStrings == [words : ReplyWords \ {<<"summarise">>}, sep : {"-"}, upper : {FALSE}]

\* a key the reply does not have, and the empty string
Missing == [words |-> <<>>, sep |-> "missing", upper |-> FALSE]
EmptyString == [words |-> <<>>, sep |-> "", upper |-> FALSE]

\* value.upper().replace("-", "_")
Normalised(value) ==
    [words |-> value.words, sep |-> IF value.sep = "-" THEN "_" ELSE value.sep,
     upper |-> TRUE]

\* the string that is the value and the name of a member
MemberString(task_type) == [words |-> TaskTypeWords[task_type], sep |-> "_", upper |-> TRUE]

\* are two strings the same text: the separator of a string of one word does
\* not occur in it
SameText(s, t) ==
    /\ s.words = t.words
    /\ s.upper = t.upper
    /\ Len(s.words) <= 1 \/ s.sep = t.sep

\* _parse_task_type
parse_task_type(value) ==
    IF value.words = <<>> THEN "ADD_TO_KNOWLEDGE_BASE"
    ELSE IF \E task_type \in TaskType : SameText(MemberString(task_type), Normalised(value))
         THEN CHOOSE task_type \in TaskType :
                 SameText(MemberString(task_type), Normalised(value))
         ELSE "ADD_TO_KNOWLEDGE_BASE"

\* _parse_alternative_types
RECURSIVE parse_alternative_types(_, _)
parse_alternative_types(values, alternatives) ==
    IF values = <<>> THEN alternatives
    ELSE LET parsed == parse_task_type(Head(values))
         IN  parse_alternative_types(
                 Tail(values),
                 IF parsed # "ADD_TO_KNOWLEDGE_BASE"
                    /\ parsed \notin {alternatives[i] : i \in DOMAIN alternatives}
                 THEN Append(alternatives, parsed) ELSE alternatives)

\* confidences in hundredths
Confidences == {50, 90}
NoConfidence == 0 - 1

NoIdentification == [task_type |-> "None"]

InitIdent ==
    /\ AgentsIdle
    /\ tagger = Idle
    /\ files = Idle
    /\ artefact = Idle
    /\ writer = Idle
    /\ executor = Idle
    /\ comm = Idle
    /\ \E task_type \in ReplyStrings \cup {Missing, EmptyString},
          confidence \in Confidences \cup {NoConfidence},
          reasoning \in {"missing", "reasoning of the reply"},
          n \in 0..MaxAlternatives :
          \E alternative_types \in [1..n -> AlternativeStrings] :
             ident = [pc |-> "query",
                      reply |-> [task_type |-> task_type,
                                 confidence |-> confidence,
                                 reasoning |-> reasoning,
                                 alternative_types |-> alternative_types],
                      final_result |-> FALSE,
                      result |-> NoIdentification]

IdentUnchanged == UNCHANGED <<AgentVars, tagger, files, artefact, writer, executor, comm>>

\* lines 119-158: the messages of query(); final_result is the reply when a
\* ResultMessage came and the accumulated text parsed as JSON
QueryIdentifier ==
    /\ ident.pc = "query"
    /\ \E parsed \in BOOLEAN :
          ident' = [ident EXCEPT !.pc = "result", !.final_result = parsed]
    /\ IdentUnchanged

\* lines 160-197: the result
BuildIdentificationResult ==
    /\ ident.pc = "result"
    /\ ident' = [ident EXCEPT
          !.pc = "returned",
          !.result =
              IF ~ident.final_result
              THEN [task_type |-> "ADD_TO_KNOWLEDGE_BASE",
                    confidence |-> 50,
                    reasoning |-> "Unable to determine task type from context",
                    alternative_types |-> <<>>]
              ELSE [task_type |-> parse_task_type(ident.reply.task_type),
                    confidence |-> IF ident.reply.confidence = NoConfidence THEN 50
                                   ELSE ident.reply.confidence,
                    reasoning |-> IF ident.reply.reasoning = "missing"
                                  THEN "Task type analysis" ELSE ident.reply.reasoning,
                    alternative_types |->
                        parse_alternative_types(ident.reply.alternative_types, <<>>)]]
    /\ IdentUnchanged

NextIdent ==
    \/ QueryIdentifier
    \/ BuildIdentificationResult

SpecIdent == InitIdent /\ [][NextIdent]_vars

(***************************************************************************)
(* The tags of an artefact entry on their way into user_contexts: the       *)
(* ingestion loop of initiate_task and create_user_context.                 *)
(***************************************************************************)
MaxTags == 3
RawTagNames == {"docs", "blog", "news"}

\* ctx.get("tags", []) handed to create_user_context as context_tags and
\* stored in the ARRAY(String) column as it is
context_tags_of(tags) == tags

InitTagger ==
    /\ AgentsIdle
    /\ ident = Idle
    /\ files = Idle
    /\ artefact = Idle
    /\ writer = Idle
    /\ executor = Idle
    /\ comm = Idle
    /\ \E n \in 0..MaxTags : \E tags \in [1..n -> RawTagNames] :
          tagger = [pc |-> "first", tags |-> tags, stored |-> <<>>]

TaggerUnchanged == UNCHANGED <<AgentVars, ident, files, artefact, writer, executor, comm>>

\* one ingestion of an entry with these raw tags: tasks.py lines 346-374 and
\* create_user_context lines 83-99
IngestTags ==
    /\ tagger.pc \in {"first", "second"}
    /\ tagger' = [tagger EXCEPT
          !.pc = IF tagger.pc = "first" THEN "second" ELSE "done",
          !.stored = Append(@, context_tags_of(tagger.tags))]
    /\ TaggerUnchanged

NextTagger == IngestTags

SpecTagger == InitTagger /\ [][NextTagger]_vars

(***************************************************************************)
(* Paths and the file system: a path string is the sequence of its segments *)
(* between "/", a location is the sequence of names from the root "/".       *)
(***************************************************************************)
MaxSegments == 3

\* the working directory of the server and the storage root app/storage/excel
Cwd == <<"srv">>
StorageRoot == Cwd \o <<"app", "storage", "excel">>

\* the regular files on disk, two of them outside the storage root
Files == {StorageRoot \o <<"a.xlsx">>, StorageRoot \o <<"sub", "b.xlsx">>,
          Cwd \o <<"app", "storage", "secret.xlsx">>, Cwd \o <<"secret.xlsx">>}

\* the symbolic link link_out in the storage root points to its parent
IsSymlink(location) == location = StorageRoot \o <<"link_out">>
SymlinkTarget(location) == Cwd \o <<"app", "storage">>

\* the segments a requested path is made of; "x\\y" holds a backslash and
\* " " is white space
Segments == {"", ".", "..", " ", "a.xlsx", "sub", "b.xlsx", "secret.xlsx", "link_out",
             "x\\y"}

IsPrefix(prefix, seq) ==
    /\ Len(prefix) <= Len(seq)
    /\ \A i \in DOMAIN prefix : prefix[i] = seq[i]

\* not file_path or not file_path.strip()
IsBlank(file_path) ==
    \/ file_path = <<>>
    \/ Len(file_path) = 1 /\ file_path[1] \in {"", " "}

\* file_path.startswith(("/", "\\")) or "\\" in file_path
StartsWithSlash(file_path) == Len(file_path) >= 2 /\ file_path[1] = ""
HasBackslash(file_path) == \E i \in DOMAIN file_path : file_path[i] = "x\\y"

\* Path(file_path).parts of a relative path: empty segments and "." are dropped
parts(file_path) == SelectSeq(file_path, LAMBDA segment : segment \notin {"", "."})

Parent(location) == IF location = <<>> THEN <<>> ELSE SubSeq(location, 1, Len(location) - 1)

\* Path.resolve(): ".." goes to the parent, a symbolic link to its target
RECURSIVE resolve(_, _)
resolve(location, names) ==
    IF names = <<>> THEN location
    ELSE IF Head(names) = ".." THEN resolve(Parent(location), Tail(names))
    ELSE IF IsSymlink(Append(location, Head(names)))
         THEN resolve(SymlinkTarget(Append(location, Head(names))), Tail(names))
         ELSE resolve(Append(location, Head(names)), Tail(names))

\* a test that lets every path through
relative_to_anything(path, root) == TRUE

\* resolved_path.relative_to(resolved_root) does not raise
relative_to(path, root) == IsPrefix(root, path)

is_file(path) == path \in Files

(***************************************************************************)
(* GET /files/excel/{file_path}: get_user_guest_id, _resolve_excel_path and *)
(* download_excel_file.                                                     *)
(***************************************************************************)
NoLocation == <<"None">>

\* _resolve_excel_path: the resolved path, or the status of the HTTPException
resolve_excel_path(file_path, storage_root) ==
    IF IsBlank(file_path) THEN [status |-> 400]
    ELSE IF StartsWithSlash(file_path) \/ HasBackslash(file_path) THEN [status |-> 400]
    ELSE IF \E i \in DOMAIN parts(file_path) : parts(file_path)[i] = ".."
         THEN [status |-> 400]
    ELSE LET resolved_root == storage_root
             resolved_path == resolve(resolved_root, parts(file_path))
         IN  IF relative_to(resolved_path, resolved_root)
             THEN [status |-> 200, path |-> resolved_path]
             ELSE [status |-> 404]

InitFiles ==
    /\ AgentsIdle
    /\ ident = Idle
    /\ tagger = Idle
    /\ artefact = Idle
    /\ writer = Idle
    /\ executor = Idle
    /\ comm = Idle
    /\ \E n \in 0..MaxSegments : \E file_path \in [1..n -> Segments] :
          files = [pc |-> "header", file_path |-> file_path, resolved_path |-> NoLocation,
                   status |-> 0, served |-> NoLocation]

FilesUnchanged == UNCHANGED <<AgentVars, ident, tagger, artefact, writer, executor, comm>>

\* get_user_guest_id: the header is missing or no uuid, or it is a uuid
GetUserGuestId ==
    /\ files.pc = "header"
    /\ \E valid \in BOOLEAN :
          files' = IF valid THEN [files EXCEPT !.pc = "resolve"]
                   ELSE [files EXCEPT !.pc = "rejected", !.status = 400]
    /\ FilesUnchanged

\* download_excel_file, lines 60-61
ResolveExcelPath ==
    /\ files.pc = "resolve"
    /\ LET resolved == resolve_excel_path(files.file_path, StorageRoot)
       IN  files' = IF resolved.status = 200
                    THEN [files EXCEPT !.pc = "serve", !.resolved_path = resolved.path]
                    ELSE [files EXCEPT !.pc = "rejected", !.status = resolved.status]
    /\ FilesUnchanged

\* download_excel_file, lines 63-70
ServeFile ==
    /\ files.pc = "serve"
    /\ files' = IF is_file(files.resolved_path)
                THEN [files EXCEPT !.pc = "served", !.status = 200,
                                   !.served = files.resolved_path]
                ELSE [files EXCEPT !.pc = "rejected", !.status = 404]
    /\ FilesUnchanged

NextFiles ==
    \/ GetUserGuestId
    \/ ResolveExcelPath
    \/ ServeFile

SpecFiles == InitFiles /\ [][NextFiles]_vars

(***************************************************************************)
(* POST /tasks under cancellation: the handler's task is cancelled while it *)
(* is suspended in an await.                                                *)
(***************************************************************************)
\* the places at which the handler awaits: run_url_context_agent, the
\* ingestion loop and its commit, and the calls of the dispatched branch
\* before create_user_task
SuspensionPoints == {"context_agent", "ingest", "dispatch"}

\* session.close() in the finally of get_async_session: the transaction is
\* rolled back and every pending object leaves the session
close(objs) == rollback(objs)

\* asyncio.CancelledError is raised in the await: it is no Exception, so no
\* except clause of the handler catches it, and get_async_session closes the
\* session
Cancel(r) ==
    /\ pc[r] \in SuspensionPoints
    /\ pc' = [pc EXCEPT ![r] = "done"]
    /\ outcome' = [outcome EXCEPT ![r] = "cancelled"]
    /\ session_new' = [session_new EXCEPT ![r] = close(@)]
    /\ UNCHANGED <<db_contexts, db_tasks, clock, request, context_ids, entries_done,
                   created, batch_commit, committed, tasks_written, mapper, orch,
                   ToolVars>>

NextCancel ==
    \/ RequestStep(1)
    \/ Cancel(1)

SpecCancel == Init /\ [][NextCancel]_vars

(***************************************************************************)
(* run_url_context_agent under concurrent requests: the artefact file       *)
(* url_context_output.json in the working directory, written by the agent's *)
(* Bash tool and read back after the query.                                 *)
(***************************************************************************)
MaxArtefactCalls == 2

\* the calls of run_url_context_agent, one per request
ArtefactCalls == 1..MaxArtefactCalls

\* who wrote the content of the file: a call, or a request served earlier
Earlier == 0
NoArtefact == [owner |-> 0 - 1, valid |-> FALSE]
NoContextResult == [kind |-> "none"]

\* the value run_url_context_agent returns, lines 146-167: the parsed artefact
\* if the file exists and holds JSON, else final_payload
read_back(file) ==
    IF file # NoArtefact /\ file.valid
    THEN [kind |-> "contexts", owner |-> file.owner]
    ELSE [kind |-> "final_payload"]

InitArtefact ==
    /\ AgentsIdle
    /\ ident = Idle
    /\ tagger = Idle
    /\ files = Idle
    /\ writer = Idle
    /\ executor = Idle
    /\ comm = Idle
    /\ \E file \in {NoArtefact} \cup [owner : {Earlier}, valid : BOOLEAN] :
          artefact = [pc |-> [c \in ArtefactCalls |-> "start"],
                      file |-> file,
                      wrote |-> [c \in ArtefactCalls |-> FALSE],
                      context_result |-> [c \in ArtefactCalls |-> NoContextResult],
                      contexts_to_save |-> [c \in ArtefactCalls |-> NoContextResult]]

ArtefactUnchanged == UNCHANGED <<AgentVars, ident, tagger, files, writer, executor, comm>>

\* lines 26-115: the prompt is built and the query is started
StartQuery(c) ==
    /\ artefact.pc[c] = "start"
    /\ artefact' = [artefact EXCEPT !.pc[c] = "query"]
    /\ ArtefactUnchanged

\* the agent of call c runs its Bash tool once: the file is overwritten with
\* JSON or with something that is no JSON
AgentWritesArtefact(c) ==
    /\ artefact.pc[c] = "query"
    /\ ~artefact.wrote[c]
    /\ \E valid \in BOOLEAN :
          artefact' = [artefact EXCEPT !.file = [owner |-> c, valid |-> valid],
                                       !.wrote[c] = TRUE]
    /\ ArtefactUnchanged

\* lines 108-167: the query ends (with or without the agent having written
\* the file) and the file is read back, or the query raises
ReadBackArtefact(c) ==
    /\ artefact.pc[c] = "query"
    /\ \E raised \in BOOLEAN :
          artefact' = IF raised
                      THEN [artefact EXCEPT !.pc[c] = "raised"]
                      ELSE [artefact EXCEPT !.pc[c] = "returned",
                                            !.context_result[c] = read_back(artefact.file)]
    /\ ArtefactUnchanged

\* initiate_task, lines 324-340: contexts_to_save = context_result["contexts"]
ContextsToSave(c) ==
    /\ artefact.pc[c] = "returned"
    /\ artefact' = [artefact EXCEPT
          !.pc[c] = "ingest",
          !.contexts_to_save[c] =
              IF artefact.context_result[c].kind = "contexts"
              THEN artefact.context_result[c] ELSE NoContextResult]
    /\ ArtefactUnchanged

NextArtefact ==
    \E c \in ArtefactCalls :
        \/ StartQuery(c)
        \/ AgentWritesArtefact(c)
        \/ ReadBackArtefact(c)
        \/ ContextsToSave(c)

SpecArtefact == InitArtefact /\ [][NextArtefact]_vars

(***************************************************************************)
(* DataExtractionAgent.execute: the name of the spreadsheet file from the   *)
(* task input and the file that ExcelTools creates or appends to.           *)
(***************************************************************************)
MaxNameSegments == 2

\* the segments of a file_name or sheet_name of the task input
NameSegments == {"", " ", "..", "report", "report.xlsx"}

\* a key that is absent from the input, and a name that is None
NoName == <<>>

\* the directories on disk: the storage root and the directories above it
Directories == {SubSeq(StorageRoot, 1, n) : n \in 0..Len(StorageRoot)}

\* value.strip() at the two ends of the string
strip(value) ==
    [i \in DOMAIN value |->
        IF i \in {1, Len(value)} /\ value[i] = " " THEN "" ELSE value[i]]

\* _parse_sheet_name_from_input, lines 122-132
parse_sheet_name_from_input(input_data) ==
    IF ~IsBlank(input_data.sheet_name) THEN strip(input_data.sheet_name) ELSE NoName

\* f"{file_name}.xlsx" on the last segment of the name
WithXlsx(segment) ==
    CASE segment = "report" -> "report.xlsx"
      [] segment = ".." -> "...xlsx"
      [] segment = "" -> ".xlsx"
      [] OTHER -> segment

\* file_name.lower().endswith(".xlsx")
EndsWithXlsx(file_name) == file_name[Len(file_name)] = "report.xlsx"

\* _parse_file_name_from_input, lines 134-153
parse_file_name_from_input(input_data, sheet_name) ==
    LET from_keys == IF ~IsBlank(input_data.file_name) THEN strip(input_data.file_name)
                     ELSE IF ~IsBlank(input_data.filename) THEN strip(input_data.filename)
                     ELSE NoName
        file_name == IF from_keys = NoName /\ sheet_name # NoName THEN sheet_name
                     ELSE from_keys
    IN  IF file_name = NoName THEN NoName
        ELSE IF EndsWithXlsx(file_name) THEN file_name
        ELSE [file_name EXCEPT ![Len(file_name)] = WithXlsx(@)]

\* self.storage_dir / file_name, as the operating system resolves it: an
\* absolute file_name replaces the storage directory
storage_path(file_name) ==
    IF StartsWithSlash(file_name) THEN resolve(<<>>, parts(file_name))
    ELSE resolve(StorageRoot, parts(file_name))

\* the directories named by the path exist: every segment before the last
\* is "..", "." or empty
Walkable(file_name) ==
    \A i \in 1..(Len(file_name) - 1) : file_name[i] \in {"", ".", ".."}

\* ws.title = sheet_name: openpyxl refuses a title that holds "/"
ValidTitle(sheet_name) == Len(sheet_name) <= 1

InitWriter ==
    /\ AgentsIdle
    /\ ident = Idle
    /\ tagger = Idle
    /\ files = Idle
    /\ artefact = Idle
    /\ executor = Idle
    /\ comm = Idle
    /\ \E n1 \in 0..MaxNameSegments, n2 \in 0..1, n3 \in 0..MaxNameSegments :
       \E file_name \in [1..n1 -> NameSegments], filename \in [1..n2 -> NameSegments],
          sheet_name \in [1..n3 -> NameSegments] :
       \E disk \in SUBSET {StorageRoot \o <<"report.xlsx">>,
                           Parent(StorageRoot) \o <<"report.xlsx">>} :
          writer = [pc |-> "parse",
                    input_data |-> [file_name |-> file_name, filename |-> filename,
                                    sheet_name |-> sheet_name],
                    sheet_name |-> NoName, file_name |-> NoName, disk |-> disk,
                    written |-> NoLocation, mode |-> "none"]

WriterUnchanged == UNCHANGED <<AgentVars, ident, tagger, files, artefact, executor, comm>>

\* execute, lines 259-266
ParseSheetAndFileName ==
    /\ writer.pc = "parse"
    /\ LET sheet_name == parse_sheet_name_from_input(writer.input_data)
       IN  writer' = [writer EXCEPT
              !.pc = "write",
              !.sheet_name = sheet_name,
              !.file_name = parse_file_name_from_input(writer.input_data, sheet_name)]
    /\ WriterUnchanged

\* execute, lines 277-329: nothing was extracted, or the file is appended to
\* if it exists and created if not; a failing write raises
AppendOrCreateExcel ==
    /\ writer.pc = "write"
    /\ \E extracted \in BOOLEAN :
          LET file_name == IF writer.file_name = NoName THEN <<"data_1.xlsx">>
                           ELSE writer.file_name
              file_path == storage_path(file_name)
          IN  writer' =
                 IF ~extracted THEN [writer EXCEPT !.pc = "failed"]
                 ELSE IF ~ValidTitle(writer.sheet_name) \/ ~Walkable(file_name)
                         \/ Parent(file_path) \notin Directories
                         \/ file_path \in Directories
                      THEN [writer EXCEPT !.pc = "raised"]
                 ELSE [writer EXCEPT
                          !.pc = "done",
                          !.mode = IF file_path \in writer.disk THEN "append" ELSE "create",
                          !.disk = @ \cup {file_path},
                          !.written = file_path]
    /\ WriterUnchanged

NextWriter ==
    \/ ParseSheetAndFileName
    \/ AppendOrCreateExcel

SpecWriter == InitWriter /\ [][NextWriter]_vars

(***************************************************************************)
(* TaskExecutor.execute_workflow: the loop over the steps of a plan and the *)
(* final status.                                                            *)
(***************************************************************************)
MaxSteps == 3

\* the step ids of a plan, which nothing forces to be distinct, and the ids
\* a step may name as dependencies, one of them the id of no step
StepIds == {"step_1", "step_2"}
DependencyIds == StepIds \cup {"step_9"}

\* a WorkflowStep: step_id and dependencies
WorkflowStep == [step_id : StepIds, dependencies : SUBSET DependencyIds]

\* a check that lets every step run
dependencies_ignored(step, completed_steps) == TRUE

\* TaskExecutor._dependencies_met
dependencies_met(step, completed_steps) ==
    IF step.dependencies = {} THEN TRUE
    ELSE \A dep_id \in step.dependencies : dep_id \in completed_steps

\* _step_to_dict
step_to_dict(step, status) == [step_id |-> step.step_id, status |-> status]

\* lines 75-81
final_status(steps, outputs) ==
    IF \E k \in DOMAIN steps : steps[k].status = "FAILED"
    THEN IF outputs # {} THEN "partial_success" ELSE "failed"
    ELSE IF \A k \in DOMAIN steps : steps[k].status \in {"COMPLETED", "SKIPPED"}
         THEN "completed"
         ELSE "in_progress"

InitExecutor ==
    /\ AgentsIdle
    /\ ident = Idle
    /\ tagger = Idle
    /\ files = Idle
    /\ artefact = Idle
    /\ writer = Idle
    /\ comm = Idle
    /\ \E n \in 0..MaxSteps : \E plan \in [1..n -> WorkflowStep] :
          executor = [pc |-> "loop", plan |-> plan, next |-> 1, steps |-> <<>>,
                      status |-> "in_progress", outputs |-> {}, errors |-> <<>>,
                      completed_steps |-> {}, executed |-> <<>>]

ExecutorUnchanged == UNCHANGED <<AgentVars, ident, tagger, files, artefact, writer, comm>>

\* one iteration of the loop of lines 48-73; executed lists the steps given
\* to _execute_step
ProcessStep ==
    /\ executor.pc = "loop"
    /\ executor.next <= Len(executor.plan)
    /\ LET step == executor.plan[executor.next]
       IN  IF ~dependencies_met(step, executor.completed_steps)
           THEN executor' = [executor EXCEPT
                   !.next = @ + 1,
                   !.steps = Append(@, step_to_dict(step, "SKIPPED"))]
           ELSE \E raised \in BOOLEAN :
                   executor' =
                      IF raised
                      THEN [executor EXCEPT
                              !.next = @ + 1,
                              !.executed = Append(@, executor.next),
                              !.errors = Append(@, step.step_id),
                              !.steps = Append(@, step_to_dict(step, "FAILED"))]
                      ELSE [executor EXCEPT
                              !.next = @ + 1,
                              !.executed = Append(@, executor.next),
                              !.completed_steps = @ \cup {step.step_id},
                              !.outputs = @ \cup {step.step_id},
                              !.steps = Append(@, step_to_dict(step, "COMPLETED"))]
    /\ ExecutorUnchanged

\* lines 75-83
ReturnResults ==
    /\ executor.pc = "loop"
    /\ executor.next > Len(executor.plan)
    /\ executor' = [executor EXCEPT
          !.pc = "returned",
          !.status = final_status(executor.steps, executor.outputs)]
    /\ ExecutorUnchanged

NextExecutor ==
    \/ ProcessStep
    \/ ReturnResults

SpecExecutor == InitExecutor /\ [][NextExecutor]_vars

(***************************************************************************)
(* AgentCommunicationProtocol: one recipient's queue under send_message,    *)
(* receive_messages(clear=True) and wait_for_message. No body of an         *)
(* `async with self._message_lock` awaits, so the lock is never found       *)
(* taken and a call suspends only in asyncio.sleep: each call below is one  *)
(* step.                                                                    *)
(***************************************************************************)
MaxSent == 3

MessageTypes == {"data", "control"}

\* message_type=None of wait_for_message
NoFilter == "None"

\* an AgentMessage, identified by the order in which it was sent
AgentMessage(id, message_type) == [id |-> id, message_type |-> message_type]

\* [m for m in messages if m.message_type == message_type]
OfType(messages, message_type) ==
    SelectSeq(messages, LAMBDA m : m.message_type = message_type)

\* [m for m in self._message_queue[agent_id] if m.message_type != message_type]
NotOfType(messages, message_type) ==
    SelectSeq(messages, LAMBDA m : m.message_type # message_type)

\* the ids of the messages of a list
IdsOf(messages) == {messages[i].id : i \in DOMAIN messages}

InitComm ==
    /\ AgentsIdle
    /\ ident = Idle
    /\ tagger = Idle
    /\ files = Idle
    /\ artefact = Idle
    /\ writer = Idle
    /\ executor = Idle
    /\ comm = [pc |-> "running", message_queue |-> <<>>, sent |-> 0,
               returned |-> [id \in 1..MaxSent |-> 0], result |-> "none"]

CommUnchanged == UNCHANGED <<AgentVars, ident, tagger, files, artefact, writer, executor>>

\* send_message
SendMessage ==
    /\ comm.sent < MaxSent
    /\ \E message_type \in MessageTypes :
          comm' = [comm EXCEPT
              !.sent = @ + 1,
              !.message_queue = Append(@, AgentMessage(comm.sent + 1, message_type)),
              !.result = "sent"]
    /\ CommUnchanged

\* receive_messages(agent_id, clear=True): the list is returned and the queue
\* is a new empty list
ReceiveMessages ==
    /\ comm' = [comm EXCEPT
          !.message_queue = <<>>,
          !.returned = [id \in 1..MaxSent |->
                          IF id \in IdsOf(comm.message_queue) THEN @[id] + 1 ELSE @[id]],
          !.result = "messages"]
    /\ CommUnchanged

\* wait_for_message, an iteration that finds a message. With a filter,
\* messages is a new list: every message of the type leaves the queue and
\* messages[0] is returned. Without one, messages is the queue's own list:
\* pop(0) takes its first element and messages[0] is then the element that
\* followed it, or raises IndexError
WaitForMessage ==
    /\ \E message_type \in MessageTypes \cup {NoFilter} :
          LET messages == IF message_type # NoFilter
                          THEN OfType(comm.message_queue, message_type)
                          ELSE comm.message_queue
          IN  /\ messages # <<>>
              /\ comm' =
                    IF message_type # NoFilter
                    THEN [comm EXCEPT
                            !.message_queue = NotOfType(@, message_type),
                            !.returned[messages[1].id] = @ + 1,
                            !.result = "message"]
                    ELSE IF Tail(comm.message_queue) = <<>>
                    THEN [comm EXCEPT !.message_queue = Tail(@), !.result = "IndexError"]
                    ELSE [comm EXCEPT
                            !.message_queue = Tail(@),
                            !.returned[Tail(comm.message_queue)[1].id] = @ + 1,
                            !.result = "message"]
    /\ CommUnchanged

\* wait_for_message finds no message until the timeout: None
WaitTimesOut ==
    /\ \E message_type \in MessageTypes \cup {NoFilter} :
          (IF message_type # NoFilter THEN OfType(comm.message_queue, message_type)
           ELSE comm.message_queue) = <<>>
    /\ comm' = [comm EXCEPT !.result = "timeout"]
    /\ CommUnchanged

NextComm ==
    \/ SendMessage
    \/ ReceiveMessages
    \/ WaitForMessage
    \/ WaitTimesOut

SpecComm == InitComm /\ [][NextComm]_vars

(***************************************************************************)
(* Claims                                                                  *)
(***************************************************************************)
\* a uuid names a committed context row of the given user
IsCommittedContextOf(id, user_guest_id) ==
    \E c \in db_contexts : c.context_id = id /\ c.user_guest_id = user_guest_id

\* C1: after a POST /tasks request has completed, every id in the persisted
\* task record's context list and in the response's context_ids is the id of a
\* committed context row owned by the task's user.
C1_TaskContextsAreCommittedRows ==
    /\ \A t \in db_tasks : \A i \in 1..Len(t.user_contexts) :
          IsCommittedContextOf(t.user_contexts[i], t.user_guest_id)
    /\ \A r \in Requests : outcome[r] = "response" =>
          \A i \in 1..Len(context_ids[r]) :
             IsCommittedContextOf(context_ids[r][i], request[r].user_guest_id)

\* the request got past the precondition of lines 304-307
PassedPrecondition(r) == request[r].selected_text \/ request[r].urls

\* C2: every request that passes the input precondition (and meets no
\* infrastructure failure) persists exactly one task record, whose task_type is
\* the chosen type: the explicit one, or the default when none was given.
C2_ExactlyOneTaskRecord ==
    \A r \in Requests :
        (pc[r] = "done" /\ PassedPrecondition(r) /\ outcome[r] # "http500") =>
            /\ Cardinality(tasks_written[r]) = 1
            /\ \A t \in db_tasks : t.task_id \in tasks_written[r] =>
                  t.task_type = AutoTaskType(request[r])

\* C4: within one ingest batch whose commit succeeded, every entry whose
\* creation succeeded, before or after a failing entry, was persisted by that
\* commit.
C4_SuccessfulEntriesPersisted ==
    \A r \in Requests : batch_commit[r] = "committed" => created[r] \subseteq committed[r]

\* C5: every context whose parent is set points to a context of the same user
\* whose own parent is null.
C5_ParentIsRootOfSameUser ==
    \A c \in db_contexts : c.parent_topic # NoId =>
        \E p \in db_contexts : /\ p.context_id = c.parent_topic
                               /\ p.user_guest_id = c.user_guest_id
                               /\ p.parent_topic = NoId

\* C5 witness: a context linked to a parent is stored while another session
\* holds a context it has created and not yet committed
C5_Witness ==
    /\ \E c \in db_contexts : c.parent_topic # NoId
    /\ \E s \in Requests : session_new[s] # <<>>

\* cosine similarity > 0.8 (as 4/5) of two embeddings
SimilarityAbove08(e1, e2) ==
    /\ e1 # NoEmbedding
    /\ e2 # NoEmbedding
    /\ 25 * cosine_similarity(e1, e2).num > 16 * cosine_similarity(e1, e2).den

\* C7: when a user's only two contexts A and B were ingested one after the
\* other (in one batch or in successive requests), with overlapping tags and
\* embedding similarity > 0.8, B is stored with parent = A's context id.
C7_SecondContextLinkedToFirst ==
    \A a \in db_contexts, b \in db_contexts :
        ( /\ a.user_guest_id = b.user_guest_id
          /\ a.timestamp < b.timestamp
          /\ {c \in db_contexts : c.user_guest_id = a.user_guest_id} = {a, b}
          /\ TagSet(a.context_tags) \cap TagSet(b.context_tags) # {}
          /\ SimilarityAbove08(a.embedding, b.embedding) )
        => b.parent_topic = a.context_id

\* C8: a request is rejected as invalid input if and only if urls,
\* selected_text and user_context are all empty.
C8_RejectedIffAllEmpty ==
    \A r \in Requests : pc[r] = "done" =>
        ( outcome[r] = "http400" <=>
            (~request[r].urls /\ ~request[r].selected_text /\ ~request[r].user_context) )

\* C9: a request that fails with invalid input has written no context row and
\* no task row.
C9_RejectedRequestWritesNothing ==
    \A r \in Requests : outcome[r] = "http400" =>
        committed[r] = {} /\ tasks_written[r] = {}

\* the candidates of the linking rule: the root contexts of the same user that
\* share at least min_tag_overlap tags with the new context
LinkingCandidates(m) ==
    {c \in m.rows : /\ c.user_guest_id = m.user_guest_id
                    /\ c.parent_topic = NoId
                    /\ Cardinality(TagSet(c.context_tags) \cap TagSet(m.context_tags))
                          >= m.min_tag_overlap}

\* the candidates whose similarity to the new context is at least the threshold
SimilarCandidates(m) ==
    {c \in LinkingCandidates(m) :
        /\ m.embedding # NoEmbedding
        /\ c.embedding # NoEmbedding
        /\ SimAtLeastThreshold(cosine_similarity(m.embedding, c.embedding))}

\* the first candidate of the rule in the order the store returned the rows
FirstCandidate(m) ==
    LET k == CHOOSE i \in 1..Len(m.candidate_contexts) :
                /\ m.candidate_contexts[i] \in LinkingCandidates(m)
                /\ \A j \in 1..(i - 1) : m.candidate_contexts[j] \notin LinkingCandidates(m)
    IN  m.candidate_contexts[k].context_id

\* C6: the result of find_parent_topic is null when no root context of the
\* same user shares at least min_tag_overlap tags; otherwise it is a candidate
\* of highest similarity when some candidate reaches the threshold 0.7, and
\* the first candidate in the store's order when none does.
C6_LinkingRule ==
    mapper.pc = "returned" =>
        IF LinkingCandidates(mapper) = {} THEN mapper.result = NoId
        ELSE IF SimilarCandidates(mapper) # {}
        THEN \E c \in SimilarCandidates(mapper) :
                /\ mapper.result = c.context_id
                /\ \A d \in SimilarCandidates(mapper) :
                      ~SimGreater(cosine_similarity(mapper.embedding, d.embedding),
                                  cosine_similarity(mapper.embedding, c.embedding))
        ELSE mapper.result = FirstCandidate(mapper)

\* C3: when the agent's execute returned a result, the status of the task
\* result is the status of the agent's result: failed when the agent's result
\* is failed, completed when it is completed.
C3_StatusIsAgentStatus ==
    orch.pc = "returned" =>
        /\ orch.agent_status = "failed" => orch.status = "failed"
        /\ orch.agent_status = "completed" => orch.status = "completed"

\* C10: orchestrate_task never raises; an exception raised while spawning or
\* executing the agent is returned as a task result with status failed.
C10_NeverRaises ==
    /\ orch.pc # "raised"
    /\ (orch.pc = "returned" /\ orch.exception # "none") => orch.status = "failed"

\* C11: every accepted request ends ingestion with at least one stored
\* context: when the handler goes on to the task type after ingestion, this
\* request has committed a context row (an ingested entry or the fallback
\* context built from the raw input).
C11_IngestionStoresAContext ==
    \A r \in Requests : pc[r] = "dispatch" => committed[r] # {}

\* C12: a step of the handler that executes the task and then writes the task
\* record (any step from the dispatch that is not rejected as invalid input)
\* ends with the response to the caller, also when the write fails.
C12_PersistenceFailureStillResponds ==
    [][\A r \in Requests :
          (pc[r] = "dispatch" /\ pc'[r] = "done" /\ outcome'[r] # "http400")
              => outcome'[r] = "response"]_vars

\* C13: every fallback provider session made while spawning an agent is bound
\* to the user of the agent context, the user of the request being orchestrated.
C13_FallbackSessionBoundToRequestUser ==
    \A user_id \in spawn.composio_sessions : user_id = spawn.user_guest_id

\* a required tool that names a server which is not among the built-in
\* servers of the map
NamesAbsentServer(tool, servers) ==
    Len(tool) >= 2 /\ tool[1] = "mcp" /\ tool[2] \notin servers

\* C14: the composed server map holds a built-in server exactly when its name
\* is required, and holds the fallback server exactly when the fallback is
\* explicitly required, or the fallback is enabled and some required tool names
\* a server that is not in the map.
C14_ComposedServerMap ==
    spawn.pc \in {"construct", "spawned", "raised"} =>
        /\ \A name \in McpServersPool :
              name \in spawn.mcp_servers <=> name \in spawn.required_mcp_servers
        /\ "composio" \in spawn.mcp_servers <=>
              \/ "composio" \in spawn.required_mcp_servers
              \/ /\ spawn.use_composio_fallback
                 /\ \E tool \in spawn.required_tools :
                       NamesAbsentServer(tool, PoolServers(spawn.required_mcp_servers))

\* C15: in every state reached by upserts and soft deletes a (user,
\* integration) pair has at most one row, and when the last operation
\* completed on the pair is an upsert, whatever came before it, the pair has
\* exactly one row, which is not deleted and holds the secret of that upsert.
C15_UpsertLeavesOneLiveRow ==
    \A pair \in TokenPairs :
        LET rows == TokenRowsOf(tokens.rows, pair[1], pair[2])
        IN  /\ Cardinality(rows) <= 1
            /\ tokens.last[pair].op = "upsert" =>
                  \E row \in rows :
                     /\ rows = {row}
                     /\ ~row.is_deleted
                     /\ row.api_key = tokens.last[pair].api_key

\* C16: reason never raises on a backend failure: in the single-shot path and
\* in the tool-server loop every exception of the backend ends in a returned
\* map that carries the error message and a null result.
C16_ReasonNeverRaises ==
    /\ reasoner.pc # "raised"
    /\ reasoner.raised # "None" =>
          /\ reasoner.pc = "returned"
          /\ reasoner.returned.result = "None"
          /\ "error" \in DOMAIN reasoner.returned
          /\ reasoner.returned.error = reasoner.raised

\* a backend exception was caught after messages were received, in the
\* tool-server loop
C16_Witness ==
    /\ reasoner.pc = "returned"
    /\ reasoner.mcp_servers
    /\ reasoner.received > 0
    /\ reasoner.raised = "ProcessError"
    /\ reasoner.returned.result = "None"

\* C17: a note-taking run that reached the write phase made exactly one
\* write: when the search returned a page, one append to the first page found
\* and no creation, the result carrying that page's id and url; when it
\* returned no page, one creation and no append.
C17_OneWriteToTheFoundPage ==
    (Len(note.appended) + note.created > 0) =>
        IF note.results # <<>>
        THEN /\ note.appended = <<note.results[1]>>
             /\ note.created = 0
             /\ note.result.status = "completed" =>
                   /\ note.result.notion_page_id = note.results[1]
                   /\ note.result.notion_page_url = UrlOf(note.results[1])
        ELSE /\ note.created = 1
             /\ note.appended = <<>>

\* C18: a DataExtractionAgent can be constructed with a tool surface, and a
\* run of such an agent that completes has written the spreadsheet through
\* the tool, never by a direct call of ExcelTools.create_excel_file, and
\* returns the file path the tool reported.
C18_WritesThroughToolSurface ==
    extraction.pc # "idle" /\ extraction.tool_surface =>
        /\ extraction.pc # "type_error"
        /\ extraction.result.status = "completed" =>
              /\ "create_excel_file" \notin ElementsOf(extraction.direct_calls)
              /\ extraction.tool_calls # <<>>
              /\ extraction.result.excel_file_path[1] = "tool"

\* C19: in a data-extraction run that completes every returned row has the
\* resolved columns as its keys, no more, no fewer and as many, and a value
\* the reasoner's row lacks is the empty string.
C19_RowsHaveExactlyTheColumns ==
    extraction.pc # "idle" /\ extraction.result.status = "completed" =>
        LET rows == extraction.result.extracted_data
            columns == extraction.result.columns
        IN  /\ DOMAIN rows = DOMAIN extraction.extracted_data
            /\ \A i \in DOMAIN rows :
                  /\ DOMAIN rows[i] = ElementsOf(columns)
                  /\ Cardinality(DOMAIN rows[i]) = Len(columns)
                  /\ \A col \in ElementsOf(columns) :
                        rows[i][col] = IF col \in DOMAIN extraction.extracted_data[i].items
                                       THEN extraction.extracted_data[i].items[col]
                                       ELSE ""

\* a completed run in which one returned row got a missing value filled and
\* lost a key that is no column
C19_Witness ==
    /\ extraction.pc = "returned"
    /\ extraction.result.status = "completed"
    /\ extraction.result.columns = <<"name">>
    /\ \E i \in DOMAIN extraction.extracted_data :
          DOMAIN extraction.extracted_data[i].items = {"role"}

\* C20: after create_excel_file and any number of append_to_excel calls with
\* the same columns and sheet, read_excel returns all the written rows in
\* the order of writing, with the same columns and, up to the coercion of
\* scalars to strings, the same cell values.
C20_RoundTrip ==
    excel.pc = "read" =>
        /\ excel.read.status = "rows"
        /\ Len(excel.read.rows) = Len(excel.written)
        /\ \A i \in DOMAIN excel.written :
              /\ DOMAIN excel.read.rows[i] = DOMAIN excel.written[i]
              /\ CoercedRow(excel.read.rows[i]) = CoercedRow(excel.written[i])

\* the reply was parsed and names no task type, or one that matches no member
NamesNoKnownTaskType ==
    /\ ident.final_result
    /\ \/ ident.reply.task_type.words = <<>>
       \/ \A task_type \in TaskType :
             ~SameText(MemberString(task_type), Normalised(ident.reply.task_type))

\* C21: when the identifier's reply names no task type, or one that matches
\* no enum member, the result is the safe default task type with confidence
\* exactly 0.5.
C21_UnknownGivesDefaultAtHalfConfidence ==
    ident.pc = "returned" /\ NamesNoKnownTaskType =>
        /\ ident.result.task_type = "ADD_TO_KNOWLEDGE_BASE"
        /\ ident.result.confidence = 50
        /\ ident.result.reasoning # "missing"

\* C22: the alternatives of a task-identification result hold no task type
\* twice and never hold the result's primary task type.
C22_AlternativesDistinctWithoutPrimary ==
    ident.pc = "returned" =>
        LET alternatives == ident.result.alternative_types
        IN  /\ \A i, j \in DOMAIN alternatives : i # j => alternatives[i] # alternatives[j]
            /\ \A i \in DOMAIN alternatives : alternatives[i] # ident.result.task_type

\* C23: EXTRACT_DATA_TO_SHEET is a member of the task-type enum, and a parsed
\* reply naming extract-data-to-sheet, in any case and with hyphens or
\* underscores, gets that task type, not the safe default.
C23_ExtractDataToSheetIsATaskType ==
    (/\ ident.pc = "returned"
     /\ ident.final_result
     /\ ident.reply.task_type.words = <<"extract", "data", "to", "sheet">>
     /\ ident.reply.task_type.sep \in {"-", "_"})
        => /\ "EXTRACT_DATA_TO_SHEET" \in TaskType
           /\ ident.result.task_type = "EXTRACT_DATA_TO_SHEET"

\* is sub what is left of seq when some of its elements are taken out
RECURSIVE IsSubsequence(_, _)
IsSubsequence(sub, seq) ==
    IF sub = <<>> THEN TRUE
    ELSE IF seq = <<>> THEN FALSE
    ELSE IF Head(sub) = Head(seq) THEN IsSubsequence(Tail(sub), Tail(seq))
    ELSE IsSubsequence(sub, Tail(seq))

\* C24: the stored tag list of a context keeps the order of the raw tags and
\* holds no tag twice, and ingesting the same raw tags twice stores the same
\* ordered list.
C24_StoredTagsOrderedAndDistinct ==
    /\ \A k \in DOMAIN tagger.stored :
          LET stored == tagger.stored[k]
          IN  /\ IsSubsequence(stored, tagger.tags)
              /\ {stored[i] : i \in DOMAIN stored} = {tagger.tags[i] : i \in DOMAIN tagger.tags}
              /\ \A i, j \in DOMAIN stored : i # j => stored[i] # stored[j]
    /\ tagger.pc = "done" => tagger.stored[1] = tagger.stored[2]

\* C25: a file is served only from inside the storage root, and a path that
\* is empty, absolute, holds a backslash or a ".." component, or resolves
\* outside the root, is rejected and no file is returned for it.
C25_ServedOnlyInsideStorageRoot ==
    /\ files.served # NoLocation =>
          /\ files.pc = "served"
          /\ IsPrefix(StorageRoot, files.served)
          /\ files.served \in Files
          /\ ~IsBlank(files.file_path)
          /\ ~StartsWithSlash(files.file_path)
          /\ ~HasBackslash(files.file_path)
          /\ \A i \in DOMAIN files.file_path : files.file_path[i] # ".."
    /\ files.pc = "rejected" => files.status \in {400, 404} /\ files.served = NoLocation

\* a file in a directory of the storage root was served
C25_Witness ==
    /\ files.pc = "served"
    /\ files.served = StorageRoot \o <<"sub", "b.xlsx">>
    /\ Len(files.file_path) = 3

\* C26: a step that cancels a request leaves no uncommitted context write
\* behind and, when the request was cancelled in its dispatched branch (the
\* task in progress), adds a task record for it (the record that would carry
\* the status failed).
C26_CancelRollsBackAndRecordsFailedTask ==
    [][\A r \in Requests :
          pc[r] \in SuspensionPoints /\ outcome'[r] = "cancelled" =>
             /\ session_new'[r] = <<>>
             /\ db_contexts' = db_contexts
             /\ pc[r] = "dispatch" =>
                   \E task \in db_tasks' \ db_tasks :
                       task.user_guest_id = request[r].user_guest_id]_vars

\* C27: the contexts a request ingests come from the artefact its own
\* context-processing call wrote, never from a file left by an earlier
\* request or written by a concurrent one.
C27_ContextsFromOwnArtefact ==
    \A c \in ArtefactCalls :
        artefact.pc[c] = "ingest" /\ artefact.contexts_to_save[c] # NoContextResult =>
            artefact.contexts_to_save[c].owner = c

\* C28: every spreadsheet file a data-extraction run creates or appends to
\* lies inside the writer's storage root, whatever names the input supplies.
C28_WrittenFileInsideStorageRoot ==
    writer.pc = "done" => IsPrefix(StorageRoot, writer.written)

\* a step before step k with the id dep_id has completed
CompletedBefore(k, dep_id) ==
    \E j \in 1..(k - 1) :
        executor.plan[j].step_id = dep_id /\ executor.steps[j].status = "COMPLETED"

\* C29: the steps are processed once each and in plan order; a step is
\* executed only if every id it depends on is the id of a step that has
\* completed before it, and is otherwise marked SKIPPED and never executed
\* (so with a failed, skipped, later or unknown dependency); the status
\* returned is never in_progress.
C29_StepsInOrderAndOnlyAfterDependencies ==
    executor.pc # "idle" =>
       /\ Len(executor.steps) = executor.next - 1
       /\ executor.next <= Len(executor.plan) + 1
       /\ \A k \in DOMAIN executor.steps :
             /\ executor.steps[k].step_id = executor.plan[k].step_id
             /\ executor.steps[k].status \in {"COMPLETED", "FAILED", "SKIPPED"}
             /\ Cardinality({e \in DOMAIN executor.executed : executor.executed[e] = k})
                   = IF executor.steps[k].status = "SKIPPED" THEN 0 ELSE 1
             /\ executor.steps[k].status # "SKIPPED"
                   <=> \A dep_id \in executor.plan[k].dependencies : CompletedBefore(k, dep_id)
       /\ \A e \in DOMAIN executor.executed :
             /\ executor.executed[e] \in DOMAIN executor.steps
             /\ e > 1 => executor.executed[e - 1] < executor.executed[e]
       /\ executor.pc = "returned" =>
             /\ Len(executor.steps) = Len(executor.plan)
             /\ executor.status \in {"completed", "partial_success", "failed"}

\* a plan of three steps in which the second step ran after
\* the step it depends on completed and the third was skipped
C29_Witness ==
    /\ executor.pc = "returned"
    /\ Len(executor.plan) = 3
    /\ executor.plan[2].dependencies = {executor.plan[1].step_id}
    /\ executor.plan[2].step_id # executor.plan[1].step_id
    /\ executor.steps[1].status = "COMPLETED"
    /\ executor.steps[2].status = "FAILED"
    /\ executor.plan[3].dependencies = {executor.plan[2].step_id}
    /\ executor.steps[3].status = "SKIPPED"

\* C30: no sent message has left the queue without having been returned to
\* a caller, and no message has been returned twice.
C30_EveryMessageReturnedOnce ==
    comm.pc = "running" =>
       \A id \in 1..comm.sent :
          /\ comm.returned[id] <= 1
          /\ id \notin IdsOf(comm.message_queue) => comm.returned[id] = 1

====
